---- MODULE Spec2Model ----
(***************************************************************************)
(* Tool federation layer of ai-chat-cli: the MCP transport clients         *)
(* (mcp_client.rs), the manager that merges built-in and remote tools      *)
(* into one catalog (mcp_manager.rs), the configuration store              *)
(* (mcp_config.rs) and the CLI paths that construct, call and reload the   *)
(* manager (main.rs, cli.rs).                                              *)
(*                                                                         *)
(* One logical thread drives everything, so the model is a sequential      *)
(* program with a program counter; the nondeterminism is the environment:  *)
(* the content of the configuration file, the iteration order of the two   *)
(* HashMaps, and what each server does with each request.                  *)
(***************************************************************************)
EXTENDS Integers, Sequences, FiniteSets, TLC

VARIABLES
    cfgFile,      \* ~/.ai-chat-cli/mcp.json: [state, servers]
    mcp_manager,  \* ChatCLI.mcp_manager: Option<McpManager>
    manager,      \* the McpManager being built inside McpManager::new
    config,       \* McpManager::new's local `config.mcp_servers` (server names)
    conns,        \* the transport clients that exist, by connection id
    pc,           \* where the single thread of control is
    caller,       \* who called McpManager::new: "main" or "reload"
    todo,         \* what the running for-loop has still to visit
    attempted,    \* history: servers connect_server was called for in this construction
    lastInit,     \* history: the latest connect_server call, its initialize exchange, its result
    connOk,       \* history: servers whose connect returned Ok in this construction
    discOrder,    \* history: <<[server, ok]>> in the order discover_tools visited them
    last,         \* history: the last call made through the CLI and its result
    nCalls,       \* number of /mcp-call commands since the last (re)load
    nReloads,     \* number of /mcp-reload commands so far
    orphaned,     \* whether a spawned subprocess is running whose client no longer exists
    files,        \* the file system the built-in handlers work on: path -> [exists, content]
    tool,         \* history: the latest BuiltinToolRegistry::execute call: [name, args, res]
    nTool,        \* number of BuiltinToolRegistry::execute calls so far
    client,       \* one McpClient used directly through its own operations
    exch,         \* history: the latest operation on `client`: [op, o, res, tools]
    nReq,         \* number of list_tools / call_tool calls made on `client` or `link`
    link          \* two McpClients driven independently: name -> [conn, pending, blocked]

\* The state of the federation layer, and the state the built-in handlers use.
mvars == <<cfgFile, mcp_manager, manager, config, conns, pc, caller, todo,
           attempted, lastInit, connOk, discOrder, last, nCalls, nReloads,
           orphaned>>

bvars == <<files, tool, nTool>>

cvars == <<client, exch, nReq, link>>

vars == <<mvars, bvars, cvars>>

-----------------------------------------------------------------------------
(* Bounds of the model *)

MaxReloads == 1
MaxCalls == 2

-----------------------------------------------------------------------------
(* The environment: names, server definitions and server tool lists *)

\* The eight tools BuiltinToolRegistry::new registers.
BuiltinNames ==
    {"bash", "read_file", "list_files", "search_glob",
     "grep", "edit_file", "write_file", "think"}

\* Server names a configuration file may use.  One server is named like the
\* built-in owner tag, one has a definition with neither command nor httpUrl.
ServerNames == {"s1", "s2", "builtin", "bad"}

\* McpServerConfig of each name: which of `command` and `httpUrl` are present.
ServerDef(s) ==
    CASE s = "s1"      -> [command |-> TRUE,  http_url |-> FALSE]
      [] s = "s2"      -> [command |-> FALSE, http_url |-> TRUE]
      [] s = "builtin" -> [command |-> TRUE,  http_url |-> TRUE]
      [] OTHER         -> [command |-> FALSE, http_url |-> FALSE]

\* What each server answers to a well-formed tools/list.
ServerTools(s) ==
    CASE s = "s1"      -> {"a", "b"}
      [] s = "s2"      -> {"b", "c", "bash"}
      [] s = "builtin" -> {"x", "think"}
      [] OTHER         -> {}

\* Tool names the user passes to /mcp-call.
CallNames == {"bash", "think", "a", "b", "c", "x", "nosuch"}

\* The sets of servers a configuration file written by the user defines.
\* The file that defines no server is the one McpConfig::load writes.
ConfiguredSets == {{"s1", "s2"}, {"s2", "builtin"}, {"s1", "bad"}}

\* Contents the configuration file can have.
ConfigFiles ==
    {[state |-> "absent", servers |-> {}], [state |-> "malformed", servers |-> {}]}
      \cup {[state |-> "valid", servers |-> S] : S \in ConfiguredSets}

-----------------------------------------------------------------------------
(* Small helpers for maps *)

EmptyMap == [k \in {} |-> "none"]

Put(f, k, v) == [x \in (DOMAIN f) \cup {k} |-> IF x = k THEN v ELSE f[x]]

-----------------------------------------------------------------------------
(* mcp_config.rs *)

is_stdio(def) == def.command

is_http(def) == def.http_url

\* What the operating system allows McpConfig::save.
ConfigSaveEnvs == {"ok", "write_err"}

\* Mutant of McpConfig_load: the empty configuration is returned and not
\* saved.
McpConfig_load_noSave(file, io) ==
    CASE file.state = "absent" ->
           [res |-> "ok", servers |-> {}, file |-> file]
      [] file.state = "malformed" ->
           [res |-> "err", servers |-> {}, file |-> file]
      [] OTHER ->
           [res |-> "ok", servers |-> file.servers, file |-> file]

\* McpConfig::load: "ok" with the servers, or "err".  A missing file is
\* replaced by a saved empty configuration; `empty_config.save()?` hands an
\* io::Error of create_dir_all or fs::write on to the caller.
McpConfig_load(file, io) ==
    CASE file.state = "absent" /\ io = "ok" ->
           [res |-> "ok", servers |-> {}, file |-> [state |-> "valid", servers |-> {}]]
      [] file.state = "absent" ->
           [res |-> "err", servers |-> {}, file |-> file]
      [] file.state = "malformed" ->
           [res |-> "err", servers |-> {}, file |-> file]
      [] OTHER ->
           [res |-> "ok", servers |-> file.servers, file |-> file]

-----------------------------------------------------------------------------
(* mcp_client.rs: JSON-RPC messages *)

\* A request whose id is the connection's integer counter: the method and
\* the id, as a connection's `wire` records what was written.
Req(method, rid) == [method |-> method, idKind |-> "int", id |-> rid]

\* A request whose id is a fresh Uuid::new_v4 string.
UuidReq(method) == [method |-> method, idKind |-> "uuid", id |-> 0]

\* A notification: no id field.
Notif(method) == [method |-> method, idKind |-> "none", id |-> 0]

\* The whole json! literal of a request: its method and its "params", <<>>
\* when the literal has no "params" key.
Request(method, params) == [method |-> method, params |-> params]

NoRequest == Request("", <<>>)

\* "params": {"name": name, "arguments": arguments} of a tools/call request.
CallParams(name, arguments) == <<<<"name", name>>, <<"arguments", arguments>>>>

\* Arguments values a caller passes with a call: /mcp-call parses them from
\* the JSON text the user typed, e.g. the empty object.
EmptyObject == "{}"

ToolArguments == {EmptyObject, "{\"k\":1}"}

-----------------------------------------------------------------------------
(* What a server can do with one request.                                  *)
(*   write_err  writing the request fails (stdio pipe closed, HTTP send)   *)
(*   read_err   reading the response line fails or yields no line          *)
(*   died       the subprocess exits while the request is in flight        *)
(*   status_err the HTTP status is not 2xx                                 *)
(*   bad_json   the response is not valid JSON                             *)
(*   no_result  valid JSON without a well-formed result (e.g. an error     *)
(*              object {"jsonrpc":"2.0","id":1,"error":{...}})             *)
(*   ok         valid JSON with a well-formed result                       *)
(*   stall      the request is accepted and never answered                 *)

StdioOutcomes == {"write_err", "read_err", "died", "bad_json", "no_result", "ok", "stall"}

HttpOutcomes == {"write_err", "status_err", "bad_json", "no_result", "ok", "stall"}

\* The outcomes possible on connection c in its current state: a subprocess
\* that is gone cannot answer.
Outcomes(c) ==
    IF c.kind = "http" THEN HttpOutcomes
    ELSE IF c.proc = "running" THEN StdioOutcomes
    ELSE {"write_err", "read_err"}

\* Outcomes of writing a notification line.
NotifOutcomes == {"ok", "write_err"}

-----------------------------------------------------------------------------
(* mcp_client.rs: StdioClient *)

\* Lines a server writes to its stdout: the response to the request with
\* id rid of a method, a JSON-RPC error object, a line nobody asked for (a
\* notification: JSON without id and without result), and text that is not
\* JSON.
Resp(method, rid) == [kind |-> "result", method |-> method, id |-> rid]

ErrorObject(rid) == [kind |-> "error", method |-> "", id |-> rid]

Unsolicited == [kind |-> "notification", method |-> "", id |-> 0]

Garbage == [kind |-> "garbage", method |-> "", id |-> 0]

NoLine == [kind |-> "none", method |-> "", id |-> 0]

\* Outcomes in which the server writes a line of its own before the
\* response: in two writes, or both lines in one write.
FramingOutcomes == {"extra_line", "two_at_once"}

\* What the server writes to stdout on a request with outcome o.
ServerLines(o, method, rid) ==
    CASE o = "ok"              -> <<Resp(method, rid)>>
      [] o = "no_result"       -> <<ErrorObject(rid)>>
      [] o = "bad_json"        -> <<Garbage>>
      [] o \in FramingOutcomes -> <<Unsolicited, Resp(method, rid)>>
      [] OTHER                 -> <<>>

\* Mutant of Stdio_send_request: when the subprocess exits, the read waits
\* for a line that never comes.
Stdio_send_request_waitsOnExit(pipe, o, method, rid) ==
    LET avail == pipe \o ServerLines(o, method, rid)
    IN  IF o = "write_err"
        THEN [res |-> "err", line |-> NoLine, pipe |-> pipe, err |-> <<"io::Error">>]
        ELSE IF o = "read_err"
        THEN [res |-> "err", line |-> NoLine, pipe |-> pipe, err |-> <<"io::Error">>]
        ELSE IF avail = <<>>
        THEN [res |-> "hung", line |-> NoLine, pipe |-> pipe, err |-> <<>>]
        ELSE IF Head(avail).kind = "garbage"
        THEN [res |-> "err", line |-> NoLine,
              pipe |-> IF o = "two_at_once" THEN <<>> ELSE Tail(avail),
              err |-> <<"Failed to parse MCP response">>]
        ELSE [res |-> "ok", line |-> Head(avail),
              pipe |-> IF o = "two_at_once" THEN <<>> ELSE Tail(avail),
              err |-> <<>>]

\* StdioClient::send_request on a connection whose stdout pipe holds the
\* lines `pipe` not read yet: the request is written, then one line is read
\* through a BufReader made for this call and parsed; Ok(response) whenever
\* the line parses as JSON, whatever the JSON is.  At end of file the line
\* is empty and does not parse.  What the BufReader took from the pipe with
\* the first line is dropped with it; lines written later stay in the pipe.
Stdio_send_request(pipe, o, method, rid) ==
    LET avail == pipe \o ServerLines(o, method, rid)
    IN  IF o = "write_err"
        THEN [res |-> "err", line |-> NoLine, pipe |-> pipe, err |-> <<"io::Error">>]
        ELSE IF o = "read_err"
        THEN [res |-> "err", line |-> NoLine, pipe |-> pipe, err |-> <<"io::Error">>]
        ELSE IF avail = <<>>
        THEN [res |-> IF o = "stall" THEN "hung" ELSE "err", line |-> NoLine,
              pipe |-> pipe,
              err |-> IF o = "stall" THEN <<>> ELSE <<"Failed to parse MCP response">>]
        ELSE IF Head(avail).kind = "garbage"
        THEN [res |-> "err", line |-> NoLine,
              pipe |-> IF o = "two_at_once" THEN <<>> ELSE Tail(avail),
              err |-> <<"Failed to parse MCP response">>]
        ELSE [res |-> "ok", line |-> Head(avail),
              pipe |-> IF o = "two_at_once" THEN <<>> ELSE Tail(avail),
              err |-> <<>>]

\* StdioClient::send_notification.
Stdio_send_notification(o) == IF o = "ok" THEN "ok" ELSE "err"

\* The subprocess after a request with outcome o.
ProcAfter(c, o) == IF c.proc = "running" /\ o = "died" THEN "exited" ELSE c.proc

\* StdioClient::initialize on client c: the initialize request, request_id += 1,
\* then the initialized notification.  The response is not looked at.
Stdio_initialize(c, o1, o2) ==
    LET r1 == Stdio_send_request(c.pipe, o1, "initialize", c.request_id)
        c1 == [c EXCEPT !.wire = Append(@, Req("initialize", c.request_id)),
                        !.proc = ProcAfter(c, o1),
                        !.pipe = r1.pipe]
        c2 == [c1 EXCEPT !.request_id = @ + 1,
                         !.wire = Append(@, Notif("notifications/initialized"))]
    IN  IF r1.res # "ok" THEN [res |-> r1.res, conn |-> c1, err |-> r1.err]
        ELSE [res |-> Stdio_send_notification(o2), conn |-> c2,
              err |-> IF o2 = "ok" THEN <<>> ELSE <<"io::Error">>]

\* StdioClient::new: spawn, then initialize.  When initialize fails the
\* client is dropped; the Child is not killed by that (no kill_on_drop), but
\* its stdin closes, on which the server may or may not exit.
StdioClient_new(s, spawnOk, o1, o2, gone) ==
    LET c0 == [server |-> s, kind |-> "stdio", proc |-> "running",
               request_id |-> 1, wire |-> <<>>, shut |-> FALSE, pipe |-> <<>>]
        r  == Stdio_initialize(c0, o1, o2)
    IN  IF ~spawnOk
        THEN [res |-> "err", opened |-> FALSE, conn |-> c0,
              err |-> <<"Failed to spawn MCP server">>]
        ELSE IF r.res = "err" /\ gone /\ r.conn.proc = "running"
             THEN [res |-> "err", opened |-> TRUE,
                   conn |-> [r.conn EXCEPT !.proc = "exited"], err |-> r.err]
        ELSE [res |-> r.res, opened |-> TRUE, conn |-> r.conn, err |-> r.err]

\* Mutant of Stdio_list_tools: the counter is incremented after the response
\* has come, as in initialize, so not when the request fails.
Stdio_list_tools_incrementAfter(c, o) ==
    LET sent == Request("tools/list", <<>>)
        r  == Stdio_send_request(c.pipe, o, "tools/list", c.request_id)
        c1 == [c EXCEPT !.wire = Append(@, Req("tools/list", c.request_id)),
                        !.proc = ProcAfter(c, o),
                        !.pipe = r.pipe]
        c2 == [c1 EXCEPT !.request_id = @ + 1]
    IN  CASE r.res = "hung" ->
               [res |-> "hung", tools |-> {}, conn |-> c1, sent |-> sent, from |-> 0, err |-> <<>>]
          [] r.res = "ok" /\ r.line.kind = "result" /\ r.line.method = "tools/list" ->
               [res |-> "ok", tools |-> ServerTools(c.server), conn |-> c2, sent |-> sent,
                from |-> r.line.id, err |-> <<>>]
          [] r.res = "ok" ->
               [res |-> "err", tools |-> {}, conn |-> c2, sent |-> sent, from |-> 0,
                err |-> <<"serde_json::Error">>]
          [] OTHER ->
               [res |-> "err", tools |-> {}, conn |-> c1, sent |-> sent, from |-> 0, err |-> r.err]

\* StdioClient::list_tools: the request takes the current id and the counter
\* is incremented before sending; result.tools of the line read must
\* deserialize as a tool list, which only the result of a tools/list does.
\* `from` is the id of the line the returned tools come from.
Stdio_list_tools(c, o) ==
    LET sent == Request("tools/list", <<>>)
        r  == Stdio_send_request(c.pipe, o, "tools/list", c.request_id)
        c1 == [c EXCEPT !.wire = Append(@, Req("tools/list", c.request_id)),
                        !.request_id = @ + 1,
                        !.proc = ProcAfter(c, o),
                        !.pipe = r.pipe]
    IN  CASE r.res = "hung" ->
               [res |-> "hung", tools |-> {}, conn |-> c1, sent |-> sent, from |-> 0, err |-> <<>>]
          [] r.res = "ok" /\ r.line.kind = "result" /\ r.line.method = "tools/list" ->
               [res |-> "ok", tools |-> ServerTools(c.server), conn |-> c1, sent |-> sent,
                from |-> r.line.id, err |-> <<>>]
          [] r.res = "ok" ->
               [res |-> "err", tools |-> {}, conn |-> c1, sent |-> sent, from |-> 0,
                err |-> <<"serde_json::Error">>]
          [] OTHER ->
               [res |-> "err", tools |-> {}, conn |-> c1, sent |-> sent, from |-> 0, err |-> r.err]

\* StdioClient::call_tool: result of the line read must deserialize as a
\* ToolCallResult, which only the result of a tools/call does.
Stdio_call_tool(c, name, arguments, o) ==
    LET sent == Request("tools/call", CallParams(name, arguments))
        r  == Stdio_send_request(c.pipe, o, "tools/call", c.request_id)
        c1 == [c EXCEPT !.wire = Append(@, Req("tools/call", c.request_id)),
                        !.request_id = @ + 1,
                        !.proc = ProcAfter(c, o),
                        !.pipe = r.pipe]
    IN  CASE r.res = "hung" -> [res |-> "hung", conn |-> c1, sent |-> sent, from |-> 0, err |-> <<>>]
          [] r.res = "ok" /\ r.line.kind = "result" /\ r.line.method = "tools/call" ->
               [res |-> "ok", conn |-> c1, sent |-> sent, from |-> r.line.id, err |-> <<>>]
          [] r.res = "ok" ->
               [res |-> "err", conn |-> c1, sent |-> sent, from |-> 0, err |-> <<"serde_json::Error">>]
          [] OTHER -> [res |-> "err", conn |-> c1, sent |-> sent, from |-> 0, err |-> r.err]

\* StdioClient::shutdown: kill the child.  Killing a child that has already
\* exited may be reported as an error (killOk = FALSE).
Stdio_shutdown(c, killOk) ==
    IF c.proc = "running"
    THEN [res |-> "ok", conn |-> [c EXCEPT !.proc = "killed", !.shut = TRUE]]
    ELSE [res |-> IF killOk THEN "ok" ELSE "err", conn |-> [c EXCEPT !.shut = TRUE]]

-----------------------------------------------------------------------------
(* mcp_client.rs: HttpClient *)

\* What the server sends back for outcome o: the status line and what the
\* body holds.  The non-2xx response carries a body that is a well-formed
\* result.
HttpResponse(o) ==
    [status |-> IF o = "status_err" THEN "500 Internal Server Error" ELSE "200 OK",
     body   |-> IF o = "status_err" THEN "ok" ELSE o]

\* StatusCode::is_success.
is_success(status) == status = "200 OK"

\* Mutant of Http_send_request: the status is not looked at.
Http_send_request_anyStatus(o) ==
    CASE o = "stall"     -> "hung"
      [] o = "write_err" -> "err"
      [] HttpResponse(o).body = "bad_json" -> "err"
      [] OTHER           -> "ok"

\* HttpClient::send_request: Ok(json) when the POST is answered 2xx with a
\* JSON body; the status is checked before the body is read.
Http_send_request(o) ==
    CASE o = "stall"     -> "hung"
      [] o = "write_err" -> "err"
      [] ~is_success(HttpResponse(o).status) -> "err"
      [] HttpResponse(o).body = "bad_json" -> "err"
      [] OTHER           -> "ok"

\* The text of the error an HTTP operation returns for outcome o, <<>> when
\* it returns none: the context of the failed step of send_request, or the
\* serde error of the caller's from_value.
Http_error(o) ==
    CASE o = "write_err" -> <<"Failed to send HTTP request to MCP server">>
      [] o \in {"ok", "no_result", "bad_json"} /\ Http_send_request(o) = "ok" ->
           IF HttpResponse(o).body = "ok" THEN <<>> ELSE <<"serde_json::Error">>
      [] ~is_success(HttpResponse(o).status) /\ Http_send_request(o) = "err" ->
           <<"MCP server returned error", HttpResponse(o).status>>
      [] Http_send_request(o) = "err" -> <<"Failed to parse MCP response">>
      [] OTHER -> <<>>

\* HttpClient::initialize: one initialize request with id 1; nothing else.
Http_initialize(c, o1) ==
    [res |-> Http_send_request(o1),
     conn |-> [c EXCEPT !.wire = Append(@, Req("initialize", 1))]]

\* HttpClient::new.
HttpClient_new(s, o1) ==
    LET c0 == [server |-> s, kind |-> "http", proc |-> "none",
               request_id |-> 1, wire |-> <<>>, shut |-> FALSE, pipe |-> <<>>]
        r  == Http_initialize(c0, o1)
    IN  [res |-> r.res, opened |-> TRUE, conn |-> r.conn]

\* Mutant of Http_list_tools: a response without result.tools is taken as
\* an empty tool list.
Http_list_tools_defaultEmpty(c, o) ==
    LET sent == Request("tools/list", <<>>)
        c1 == [c EXCEPT !.wire = Append(@, UuidReq("tools/list"))]
        r  == Http_send_request(o)
    IN  CASE r = "hung" -> [res |-> "hung", tools |-> {}, conn |-> c1, sent |-> sent]
          [] r = "ok" /\ HttpResponse(o).body = "ok" ->
               [res |-> "ok", tools |-> ServerTools(c.server), conn |-> c1, sent |-> sent]
          [] r = "ok" -> [res |-> "ok", tools |-> {}, conn |-> c1, sent |-> sent]
          [] OTHER -> [res |-> "err", tools |-> {}, conn |-> c1, sent |-> sent]

\* HttpClient::list_tools.
Http_list_tools(c, o) ==
    LET sent == Request("tools/list", <<>>)
        c1 == [c EXCEPT !.wire = Append(@, UuidReq("tools/list"))]
        r  == Http_send_request(o)
    IN  CASE r = "hung" -> [res |-> "hung", tools |-> {}, conn |-> c1, sent |-> sent]
          [] r = "ok" /\ HttpResponse(o).body = "ok" ->
               [res |-> "ok", tools |-> ServerTools(c.server), conn |-> c1, sent |-> sent]
          [] OTHER -> [res |-> "err", tools |-> {}, conn |-> c1, sent |-> sent]

\* Mutant of Http_call_tool: the request carries no params.
Http_call_tool_noParams(c, name, arguments, o) ==
    LET sent == Request("tools/call", <<>>)
        c1 == [c EXCEPT !.wire = Append(@, UuidReq("tools/call"))]
        r  == Http_send_request(o)
    IN  CASE r = "hung" -> [res |-> "hung", conn |-> c1, sent |-> sent]
          [] r = "ok" /\ HttpResponse(o).body = "ok" -> [res |-> "ok", conn |-> c1, sent |-> sent]
          [] OTHER -> [res |-> "err", conn |-> c1, sent |-> sent]

\* HttpClient::call_tool.
Http_call_tool(c, name, arguments, o) ==
    LET sent == Request("tools/call", CallParams(name, arguments))
        c1 == [c EXCEPT !.wire = Append(@, UuidReq("tools/call"))]
        r  == Http_send_request(o)
    IN  CASE r = "hung" -> [res |-> "hung", conn |-> c1, sent |-> sent]
          [] r = "ok" /\ HttpResponse(o).body = "ok" -> [res |-> "ok", conn |-> c1, sent |-> sent]
          [] OTHER -> [res |-> "err", conn |-> c1, sent |-> sent]

-----------------------------------------------------------------------------
(* mcp_client.rs: enum McpClient *)

McpClient_connect_stdio(s, spawnOk, o1, o2, gone) ==
    StdioClient_new(s, spawnOk, o1, o2, gone)

McpClient_connect_http(s, o1) == HttpClient_new(s, o1)

McpClient_list_tools(c, o) ==
    IF c.kind = "stdio" THEN Stdio_list_tools(c, o) ELSE Http_list_tools(c, o)

McpClient_call_tool(c, name, arguments, o) ==
    IF c.kind = "stdio" THEN Stdio_call_tool(c, name, arguments, o)
    ELSE Http_call_tool(c, name, arguments, o)

\* The text of the error in the result r of an operation on a client of
\* this kind, <<>> when it is not an Err.
McpClient_error(kind, r, o) ==
    IF kind = "stdio" THEN r.err
    ELSE IF r.res = "err" THEN Http_error(o) ELSE <<>>

\* The id of the response line the result r was taken from, 0 when no
\* result was returned or the transport has no connection state.
McpClient_from(kind, r) == IF kind = "stdio" THEN r.from ELSE 0

\* McpClient::shutdown: Http is a no-op returning Ok.
McpClient_shutdown(c, killOk) ==
    IF c.kind = "stdio" THEN Stdio_shutdown(c, killOk)
    ELSE [res |-> "ok", conn |-> [c EXCEPT !.shut = TRUE]]

\* No client has been connected.
NoClient ==
    [server |-> "", kind |-> "none", proc |-> "none", request_id |-> 0,
     wire |-> <<>>, shut |-> FALSE, pipe |-> <<>>]

\* No operation has been invoked on the client yet.
NoExchange ==
    [op |-> "none", o |-> "none", res |-> "none", tools |-> {}, err |-> <<>>,
     rid |-> 0, from |-> 0, sent |-> NoRequest]

\* The McpClient values a caller may hold side by side.
Links == {"A", "B"}

\* A client value before connect: no subprocess, no request written.
\* `pending` are the requests written to the subprocess whose send_request
\* has not returned; `blocked` says the caller waits in one that never will.
NoLink == [conn |-> NoClient, pending |-> <<>>, blocked |-> FALSE]

NoLinks == [l \in Links |-> NoLink]

\* Mutant of CanStartRequest: an operation can start while another one on
\* the same client has not returned.
CanStartRequest_shared(k) == ~k.blocked

\* connect_stdio builds the client, and list_tools, call_tool and shutdown
\* take `&mut self` and hold it across the .await of send_request: an
\* operation on a client starts only when none is running on that client.
CanStartRequest(k) == k.pending = <<>> /\ ~k.blocked

-----------------------------------------------------------------------------
(* builtin_tools.rs: BuiltinToolRegistry *)

\* What a handler can come to: a success result, a result with is_error, or
\* an Err (a missing required argument, or a failed call that is propagated
\* with `?`).
HandlerOutcomes == {"ok", "is_error", "arg_err"}

\* BuiltinToolRegistry::execute: dispatch by name; an unknown name bails.
BuiltinToolRegistry_execute(name, ho) ==
    IF name \in BuiltinNames
    THEN [res |-> IF ho = "arg_err" THEN "err" ELSE ho, err |-> "handler"]
    ELSE [res |-> "err", err |-> "unknown_builtin"]

-----------------------------------------------------------------------------
(* builtin_tools.rs: the handlers behind BuiltinToolRegistry::execute.      *)
(* Strings the handlers inspect (file contents, shell commands, old and new *)
(* text) are sequences of characters; a handler's outcome is a record       *)
(*   kind    "ok"            Ok(ToolResult::success(..))                     *)
(*           "is_error"      Ok(ToolResult::error(..))                       *)
(*           "raised"        Err(..) returned to the caller of execute       *)
(*           "panic"         the handler panics                              *)
(*           "never_returns" the handler blocks forever                      *)
(*   msg     which message the result carries                               *)
(*   data    the variable part of the text                                  *)
(*   spawns  the argument vectors of the subprocesses the call spawned      *)
(*   elapsed how long the call took, in seconds                             *)

\* Longest file content, in characters.
MaxLen == 2

\* Number of BuiltinToolRegistry::execute calls in one run.
MaxToolCalls == 2

\* `args["timeout"].as_u64().unwrap_or(30)`.
DefaultTimeout == 30

\* Characters of the initial file content; edits and writes add "b".
Alphabet == {"a", "\n"}

\* All strings of at most n characters.
StringsUpTo(n) == UNION {[1..k -> Alphabet] : k \in 0..n}

Contents == StringsUpTo(MaxLen)

\* Option<T>: None is <<>>, Some(x) is <<x>>.
None == <<>>

Some(x) == <<x>>

\* str::contains: p occurs in s as a contiguous substring.
Contains(s, p) ==
    \E i \in 1..(Len(s) - Len(p) + 1) : SubSeq(s, i, i + Len(p) - 1) = p

\* Position of the first occurrence of p in s, 0 if there is none.
Find(s, p) ==
    IF Contains(s, p)
    THEN CHOOSE i \in 1..(Len(s) - Len(p) + 1) :
           /\ SubSeq(s, i, i + Len(p) - 1) = p
           /\ \A j \in 1..(i - 1) : SubSeq(s, j, j + Len(p) - 1) # p
    ELSE 0

RECURSIVE Replace(_, _, _)
\* str::replace: every non-overlapping occurrence of `from`, left to right;
\* an empty `from` matches before every character and at the end.
Replace(s, from, to) ==
    IF from = <<>>
    THEN IF s = <<>> THEN to
         ELSE to \o <<Head(s)>> \o Replace(Tail(s), from, to)
    ELSE LET i == Find(s, from)
         IN  IF i = 0 THEN s
             ELSE SubSeq(s, 1, i - 1) \o to
                    \o Replace(SubSeq(s, i + Len(from), Len(s)), from, to)

RECURSIVE Lines(_)
\* str::lines: split at "\n"; a final newline does not start another line.
Lines(s) ==
    IF s = <<>> THEN <<>>
    ELSE LET i == Find(s, <<"\n">>)
         IN  IF i = 0 THEN <<s>>
             ELSE <<SubSeq(s, 1, i - 1)>> \o Lines(SubSeq(s, i + 1, Len(s)))

RECURSIVE Join(_, _)
\* [&str]::join(sep).
Join(ls, sep) ==
    IF ls = <<>> THEN <<>>
    ELSE IF Len(ls) = 1 THEN ls[1]
    ELSE ls[1] \o sep \o Join(Tail(ls), sep)

Min(a, b) == IF a < b THEN a ELSE b

\* usize::saturating_sub.
saturating_sub(a, b) == IF a < b THEN 0 ELSE a - b

\* A handler outcome.
Result(kind, msg, data) ==
    [kind |-> kind, msg |-> msg, data |-> data, spawns |-> <<>>, elapsed |-> 0]

ToolResult_success(msg, data) == Result("ok", msg, data)

ToolResult_error(msg, data) == Result("is_error", msg, data)

Raised(msg) == Result("raised", msg, <<>>)

\* The file system: "f", a regular path in the writable directory "d"; "n/h",
\* a regular path in a directory "n" of "d" that may not exist yet; and
\* "ro/x", a path that does not exist in a directory where nothing can be
\* created.
RegularPaths == {"f", "n/h"}

\* Directories that can be created.
NewDirs == {"n"}

\* The process runs in "d": "." names it too.
ArgPaths == {"f", "n/h", "d", "ro/x"}

NoFile == [exists |-> FALSE, content |-> <<>>]

File(c) == [exists |-> TRUE, content |-> c]

\* A directory that exists.
Dir == [exists |-> TRUE, content |-> <<>>]

\* Path::parent: "" for a path of one component.
Parent(path) ==
    CASE path = "n/h"  -> "n"
      [] path = "ro/x" -> "ro"
      [] OTHER         -> ""

\* The directory a path lies in exists.
ParentExists(fs, path) == Parent(path) \in NewDirs => fs[Parent(path)].exists

\* fs::create_dir_all(dir): the file system afterwards, or None for an
\* io::Error.  An empty path and a directory that exists are left alone.
fs_create_dir_all(fs, dir, io) ==
    IF io = "mkdir_err" THEN None
    ELSE IF dir \in NewDirs THEN Some([fs EXCEPT ![dir] = Dir])
    ELSE Some(fs)

\* fs::read_to_string(path): Some(content) or None for an io::Error.
fs_read_to_string(fs, path) ==
    IF path \in RegularPaths /\ ParentExists(fs, path) /\ fs[path].exists
    THEN Some(fs[path].content)
    ELSE None

\* Mutant of fs_write: the content is appended to what the file holds.
fs_write_append(fs, path, content, io) ==
    IF path \in RegularPaths /\ io = "ok" /\ ParentExists(fs, path)
    THEN Some([fs EXCEPT ![path] = File(@.content \o content)])
    ELSE None

\* fs::write(path, content): the file system afterwards, or None for an
\* io::Error; `io` is what the operating system allows this time.
fs_write(fs, path, content, io) ==
    IF path \in RegularPaths /\ io = "ok" /\ ParentExists(fs, path)
    THEN Some([fs EXCEPT ![path] = File(content)])
    ELSE None

\* fs::read_dir(path): Some(names), in the order `order` ranks them, or None.
fs_read_dir(fs, path, order) ==
    IF path \in {"d", "."}
    THEN Some(SelectSeq(order, LAMBDA p : fs[p].exists))
    ELSE None

\* Arguments are Options: `args["path"].as_str()` is None when the key is
\* missing or not a string, `args["start_line"].as_u64()` when it is missing
\* or not a non-negative integer.

\* execute_read_file: path is required; the file is read; with both
\* start_line and end_line the window lines[start-1 .. min(end, len)] is
\* joined with "\n".  A Rust range whose start exceeds its end panics.
execute_read_file(fs, args) ==
    LET content == fs_read_to_string(fs, args.path[1])
    IN  IF args.path = None THEN Raised("Missing 'path' parameter")
        ELSE IF content = None THEN Raised("Failed to read file")
        ELSE IF args.start_line # None /\ args.end_line # None
        THEN LET lines     == Lines(content[1])
                 start_idx == saturating_sub(args.start_line[1], 1)
                 end_idx   == Min(args.end_line[1], Len(lines))
             IN  IF start_idx > end_idx
                 THEN Result("panic", "slice index starts after its end", <<>>)
                 ELSE ToolResult_success("", Join(SubSeq(lines, start_idx + 1, end_idx),
                                                  <<"\n">>))
        ELSE ToolResult_success("", content[1])

\* execute_list_files with list_files_single / list_files_recursive: the
\* path defaults to "."; read_dir's Err is propagated by both.
execute_list_files(fs, args, order) ==
    LET path    == IF args.path = None THEN "." ELSE args.path[1]
        entries == fs_read_dir(fs, path, order)
    IN  IF entries = None THEN Raised("Failed to read directory")
        ELSE ToolResult_success(IF args.recursive THEN "tree" ELSE "single", entries[1])

\* Mutant of old_text_found: the edit goes ahead whatever the file holds.
old_text_found_always(content, old_text) == TRUE

\* execute_edit_file, `content.contains(old_text)`: the literal text occurs.
old_text_found(content, old_text) == Contains(content, old_text)

\* execute_edit_file: three required arguments; read, `contains`, `replace`,
\* write.  The result and the file system afterwards.
execute_edit_file(fs, args, io) ==
    LET content == fs_read_to_string(fs, args.path[1])
        written == fs_write(fs, args.path[1],
                            Replace(content[1], args.old_text[1], args.new_text[1]), io)
    IN  IF args.path = None
        THEN [res |-> Raised("Missing 'path' parameter"), files |-> fs]
        ELSE IF args.old_text = None
        THEN [res |-> Raised("Missing 'old_text' parameter"), files |-> fs]
        ELSE IF args.new_text = None
        THEN [res |-> Raised("Missing 'new_text' parameter"), files |-> fs]
        ELSE IF content = None
        THEN [res |-> Raised("Failed to read file"), files |-> fs]
        ELSE IF ~old_text_found(content[1], args.old_text[1])
        THEN [res |-> ToolResult_error("Old text not found in file. Text must match exactly.",
                                       <<>>),
              files |-> fs]
        ELSE IF written = None
        THEN [res |-> Raised("Failed to write file"), files |-> fs]
        ELSE [res |-> ToolResult_success("File edited successfully", <<>>),
              files |-> written[1]]

\* execute_write_file: two required arguments; create_dir_all(parent), write.
\* (The success message also carries the path and the byte count.)
execute_write_file(fs, args, io) ==
    LET made    == fs_create_dir_all(fs, Parent(args.path[1]), io)
        written == fs_write(made[1], args.path[1], args.content[1], io)
    IN  IF args.path = None
        THEN [res |-> Raised("Missing 'path' parameter"), files |-> fs]
        ELSE IF args.content = None
        THEN [res |-> Raised("Missing 'content' parameter"), files |-> fs]
        ELSE IF made = None
        THEN [res |-> Raised("Failed to create parent directories"), files |-> fs]
        ELSE IF written = None
        THEN [res |-> Raised("Failed to write file"), files |-> made[1]]
        ELSE [res |-> ToolResult_success("File written successfully", <<>>),
              files |-> written[1]]

\* execute_think.
execute_think(args) ==
    IF args.thoughts = None THEN Raised("Missing 'thoughts' parameter")
    ELSE ToolResult_success("Internal reasoning", args.thoughts)

\* `let dangerous_patterns = ["rm -rf /", "dd if=", "mkfs", "format", "> /dev/"]`.
dangerous_patterns ==
    << <<"r", "m", " ", "-", "r", "f", " ", "/">>,
       <<"d", "d", " ", "i", "f", "=">>,
       <<"m", "k", "f", "s">>,
       <<"f", "o", "r", "m", "a", "t">>,
       <<">", " ", "/", "d", "e", "v", "/">> >>

\* Shell commands the caller passes: each denylisted pattern, a harmless
\* command, a near miss, and a command with two patterns, alone or between
\* other text.
CommandCores ==
    {dangerous_patterns[i] : i \in DOMAIN dangerous_patterns}
      \cup {<<"l", "s">>,
            <<"r", "m", " ", "-", "r", "f">>,
            <<"f", "o", "r", "m", "a", "t", " ", "m", "k", "f", "s">>}

Commands ==
    {pre \o core : pre \in {<<>>, <<"l", "s", ";">>}, core \in CommandCores}
      \cup {core \o <<"x">> : core \in CommandCores}

\* Mutant of first_dangerous: only the first pattern of the list is looked for.
first_dangerous_onlyFirst(command) ==
    IF Contains(command, dangerous_patterns[1]) THEN 1 ELSE 0

\* The loop `for pattern in &dangerous_patterns`: the index of the first
\* pattern, in list order, the command contains; 0 if it contains none.
first_dangerous(command) ==
    IF \E i \in DOMAIN dangerous_patterns : Contains(command, dangerous_patterns[i])
    THEN CHOOSE i \in DOMAIN dangerous_patterns :
           /\ Contains(command, dangerous_patterns[i])
           /\ \A j \in 1..(i - 1) : ~Contains(command, dangerous_patterns[j])
    ELSE 0

\* One subprocess: the program and its arguments.
Spawn(program, argv) == [program |-> program, argv |-> argv]

\* Result r of a call that spawned the subprocess sp / that took t seconds.
WithSpawn(r, sp) == [r EXCEPT !.spawns = <<sp>>]

Took(r, t) == [r EXCEPT !.elapsed = t]

\* tokio::time::timeout(limit, fut).  Timeout::poll polls the future first
\* and looks at the timer only when the future is Pending: a future that
\* never yields (`awaits` FALSE) is Ready at the end of its first poll,
\* however long that poll took.  `takes` is how long the future's work
\* takes (None: forever).
tokio_timeout(limit, fut) ==
    IF fut.awaits
    THEN IF fut.takes # None /\ fut.takes[1] <= limit
         THEN [outcome |-> "value", elapsed |-> fut.takes[1]]
         ELSE [outcome |-> "elapsed", elapsed |-> limit]
    ELSE IF fut.takes = None
         THEN [outcome |-> "never_returns", elapsed |-> 0]
         ELSE [outcome |-> "value", elapsed |-> fut.takes[1]]

\* Mutant of bash_output: the separator is written whenever stderr is not
\* empty.
bash_output_alwaysSeparator(stdout, stderr) ==
    LET result == IF stdout # <<>> THEN stdout ELSE <<>>
    IN  IF stderr # <<>> THEN result \o <<"\nSTDERR:\n">> \o stderr ELSE result

\* The text execute_bash builds from stdout and stderr: `result` starts
\* empty, takes stdout when that is not empty, and then stderr when that is
\* not empty, after a separator when `result` is not empty by then.
bash_output(stdout, stderr) ==
    LET result == IF stdout # <<>> THEN stdout ELSE <<>>
    IN  IF stderr # <<>>
        THEN (IF result # <<>> THEN result \o <<"\nSTDERR:\n">> ELSE result) \o stderr
        ELSE result

\* What the operating system does with one `sh -c command`: whether the
\* spawn works, how long the command runs (None: forever), what it writes
\* and how it exits.
BashEnvs ==
    [spawn : BOOLEAN, dur : {None, Some(0), Some(DefaultTimeout + 1)},
     stdout : {<<>>, <<"o">>}, stderr : {<<>>, <<"e">>}, exit : {"0", "1", "signal"}]

\* The `execution` async block of execute_bash: std::process::Command's
\* output() blocks the thread until the command has exited; the block has
\* no await point.
bash_execution(command, env) ==
    LET out == bash_output(env.stdout, env.stderr)
    IN  IF ~env.spawn
        THEN [fut |-> [takes |-> Some(0), awaits |-> FALSE],
              value |-> Raised("Failed to execute command")]
        ELSE [fut |-> [takes |-> env.dur, awaits |-> FALSE],
              value |-> WithSpawn(
                          IF env.exit = "0"
                          THEN ToolResult_success("", out)
                          ELSE ToolResult_error(
                                 IF env.exit = "1"
                                 THEN "Command failed with exit code 1"
                                 ELSE "Command failed with exit code -1", out),
                          Spawn("sh", <<"-c", command>>))]

\* execute_bash.
execute_bash(args, env) ==
    LET command      == args.command[1]
        timeout_secs == IF args.timeout = None THEN DefaultTimeout ELSE args.timeout[1]
        hit          == first_dangerous(command)
        execution    == bash_execution(command, env)
        t            == tokio_timeout(timeout_secs, execution.fut)
    IN  IF args.command = None THEN Raised("Missing 'command' parameter")
        ELSE IF hit # 0
        THEN ToolResult_error("Command blocked for security: contains",
                              dangerous_patterns[hit])
        ELSE CASE t.outcome = "value" -> Took(execution.value, t.elapsed)
               [] t.outcome = "elapsed" ->
                    Took(WithSpawn(ToolResult_error("Command timed out after", <<>>),
                                   Spawn("sh", <<"-c", command>>)),
                         t.elapsed)
               [] OTHER ->
                    WithSpawn(Result("never_returns", "", <<>>),
                              Spawn("sh", <<"-c", command>>))

\* Glob patterns and base paths for search_glob, as characters.
GlobPatterns == {<<"*", ".", "r", "s">>, <<"*", "*", "/", "x">>}

\* execute_search_glob: `find {base_path} -name '{pattern}'` through sh,
\* with "**" replaced by "*" in the pattern; only stdout is looked at.
execute_search_glob(args, spawnOk, found) ==
    LET base_path == IF args.base_path = None THEN <<".">> ELSE args.base_path[1]
        command   == <<"f", "i", "n", "d", " ">> \o base_path
                       \o <<" ", "-", "n", "a", "m", "e", " ", "'">>
                       \o Replace(args.pattern[1], <<"*", "*">>, <<"*">>) \o <<"'">>
    IN  IF args.pattern = None THEN Raised("Missing 'pattern' parameter")
        ELSE IF ~spawnOk THEN Raised("Failed to execute glob search")
        ELSE WithSpawn(
               ToolResult_success(IF found THEN "" ELSE "No files found matching pattern",
                                  IF found THEN <<"f">> ELSE args.pattern[1]),
               Spawn("sh", <<"-c", command>>))

\* What the operating system does with the spawn of grep.
GrepEnvs == [spawn : BOOLEAN]

\* The characters of a command-line argument, for its use as a pattern.
Chars(arg) ==
    CASE arg = "a"    -> <<"a">>
      [] arg = "b"    -> <<"b">>
      [] arg = "f"    -> <<"f">>
      [] arg = "grep" -> <<"g", "r", "e", "p">>
      [] OTHER        -> <<arg>>

GrepOptions == {"-i", "-r", "-n"}

\* The lines of one file that contain the pattern, as grep -n prints them:
\* the line number and the line, after the file's name when more than one
\* file is searched.
grep_file(name, content, pat, withName) ==
    LET ls == Lines(content)
        numbered == [i \in 1..Len(ls) |->
                        [file |-> IF withName THEN Some(name) ELSE None,
                         line |-> i, text |-> ls[i]]]
    IN  SelectSeq(numbered, LAMBDA e : Contains(e.text, pat))

\* grep over its file operands in order: matching lines on stdout, one
\* message on stderr for every operand that cannot be read.
RECURSIVE grep_scan(_, _, _, _)
grep_scan(fs, targets, pat, withName) ==
    IF targets = <<>> THEN [stdout |-> <<>>, stderr |-> <<>>]
    ELSE LET t == Head(targets)
             rest == grep_scan(fs, Tail(targets), pat, withName)
             content == fs_read_to_string(fs, t)
         IN  IF content = None
             THEN [stdout |-> rest.stdout,
                   stderr |-> <<<<"grep", t, "No such file or directory">>>> \o rest.stderr]
             ELSE [stdout |-> grep_file(t, content[1], pat, withName) \o rest.stdout,
                   stderr |-> rest.stderr]

\* The grep program run with the arguments argv (argv[0] excluded): options
\* are recognised wherever they stand, the first remaining argument is the
\* pattern and the others are the files to search.  The alphabet has no
\* upper case, so -i does not change what matches.
grep_run(fs, argv) ==
    LET operands == SelectSeq(argv, LAMBDA x : x \notin GrepOptions)
    IN  IF operands = <<>>
        THEN [stdout |-> <<>>, stderr |-> <<<<"grep", "", "usage">>>>]
        ELSE grep_scan(fs, Tail(operands), Chars(Head(operands)),
                       Len(operands) > 2)

\* execute_grep: the argument vector starts with "grep" and is handed to
\* Command::new("grep").args(..); anything on stderr is an error result.
execute_grep(fs, args, env) ==
    LET cmd_args == <<"grep">>
                      \o (IF args.ignore_case THEN <<"-i">> ELSE <<>>)
                      \o (IF args.recursive THEN <<"-r">> ELSE <<>>)
                      \o <<"-n", args.pattern[1], args.path[1]>>
        output == grep_run(fs, cmd_args)
    IN  IF args.pattern = None THEN Raised("Missing 'pattern' parameter")
        ELSE IF args.path = None THEN Raised("Missing 'path' parameter")
        ELSE IF ~env.spawn THEN Raised("Failed to execute grep")
        ELSE WithSpawn(
               IF output.stderr # <<>> THEN ToolResult_error("", output.stderr)
               ELSE IF output.stdout = <<>>
                    THEN ToolResult_success("No matches found for pattern",
                                            <<args.pattern[1]>>)
                    ELSE ToolResult_success("", output.stdout),
               Spawn("grep", cmd_args))

\* No call of execute has been made yet.
NoToolCall == [name |-> "", args |-> <<>>, res |-> Result("none", "", <<>>)]

\* The file system the chat session starts on.
InitialFiles ==
    [p \in RegularPaths \cup NewDirs |-> IF p = "f" THEN File(<<"a">>) ELSE NoFile]

-----------------------------------------------------------------------------
(* mcp_manager.rs: McpManager *)

NoManager == [some |-> FALSE, clients |-> EmptyMap, tools |-> EmptyMap]

\* McpManager { clients: HashMap::new(), tools: HashMap::new(), .. }
NewManager == [clients |-> EmptyMap, tools |-> EmptyMap]

\* Mutant of InsertTools: an entry that exists is kept (first registration wins).
InsertTools_firstWins(tools, owner, names) ==
    [n \in (DOMAIN tools) \cup names |-> IF n \in DOMAIN tools THEN tools[n] ELSE owner]

\* self.tools.insert(name, (owner, tool)) for every name of `names`.
InsertTools(tools, owner, names) ==
    [n \in (DOMAIN tools) \cup names |-> IF n \in names THEN owner ELSE tools[n]]

\* The loop of McpManager::new that registers the built-in tools.
RegisterBuiltinTools(m) ==
    [m EXCEPT !.tools = InsertTools(@, "builtin", BuiltinNames)]

\* Connection ids: the construction (0 = startup, k = k-th reload) and the server.
Cid(gen, s) == <<gen, s>>

\* Mutant of connect_server: a definition without httpUrl is taken as a stdio
\* definition, with or without a command.
connect_server_stdioByDefault(m, gen, s, spawnOk, o1, o2, gone) ==
    LET def == ServerDef(s)
        r == IF is_http(def) /\ ~is_stdio(def) THEN McpClient_connect_http(s, o1)
             ELSE McpClient_connect_stdio(s, spawnOk, o1, o2, gone)
    IN  [res |-> r.res, opened |-> r.opened, conn |-> r.conn,
         manager |-> IF r.res = "ok"
                     THEN [m EXCEPT !.clients = Put(@, s, Cid(gen, s))]
                     ELSE m]

\* McpManager::connect_server: returns the transport's result; on Ok the
\* client is inserted under the server's name.
connect_server(m, gen, s, spawnOk, o1, o2, gone) ==
    LET def == ServerDef(s)
        r == IF is_stdio(def) THEN McpClient_connect_stdio(s, spawnOk, o1, o2, gone)
             ELSE IF is_http(def) THEN McpClient_connect_http(s, o1)
             ELSE [res |-> "err", opened |-> FALSE,
                   conn |-> [server |-> s, kind |-> "none", proc |-> "none",
                             request_id |-> 0, wire |-> <<>>, shut |-> FALSE,
                             pipe |-> <<>>]]
    IN  [res |-> r.res, opened |-> r.opened, conn |-> r.conn,
         manager |-> IF r.res = "ok"
                     THEN [m EXCEPT !.clients = Put(@, s, Cid(gen, s))]
                     ELSE m]

\* Mutant of discover_tools_merge: the owner recorded is a tag for remote
\* tools, not the key under which the client is held.
discover_tools_merge_ownerTag(m, s, r) ==
    IF r.res = "ok" THEN [m EXCEPT !.tools = InsertTools(@, "remote", r.tools)] ELSE m

\* One iteration of the loop of McpManager::discover_tools: on Ok every listed
\* tool is inserted under the server's name, on Err nothing is.
discover_tools_merge(m, s, r) ==
    IF r.res = "ok" THEN [m EXCEPT !.tools = InsertTools(@, s, r.tools)] ELSE m

\* Mutant of connect_loop_next: the Err is propagated and construction ends.
connect_loop_next_abort(res) ==
    IF res = "hung" THEN "Hung" ELSE IF res = "err" THEN "Ready" ELSE "ConnectingServers"

\* McpManager::new, connect loop: an Err of connect_server is printed and the
\* loop continues with the next server.
connect_loop_next(res) == IF res = "hung" THEN "Hung" ELSE "ConnectingServers"

\* Mutant of discover_loop_next: the Err is propagated and construction ends.
discover_loop_next_abort(res) ==
    IF res = "hung" THEN "Hung" ELSE IF res = "err" THEN "Ready" ELSE "DiscoveringTools"

\* McpManager::discover_tools, loop: an Err of list_tools is printed and the
\* loop continues with the next client.
discover_loop_next(res) == IF res = "hung" THEN "Hung" ELSE "DiscoveringTools"

\* Mutant of call_tool_route: a name missing from the catalog falls through
\* to the built-in registry.
call_tool_route_noLookup(m, name) ==
    IF name \notin DOMAIN m.tools \/ m.tools[name] = "builtin" THEN "builtin"
    ELSE IF m.tools[name] \notin DOMAIN m.clients THEN "server_not_connected"
    ELSE "remote"

\* Mutant of call_tool_route: the built-in registry is chosen by the tool's
\* name instead of by the entry's owner.
call_tool_route_byName(m, name) ==
    IF name \notin DOMAIN m.tools THEN "tool_not_found"
    ELSE IF name \in BuiltinNames THEN "builtin"
    ELSE IF m.tools[name] \notin DOMAIN m.clients THEN "server_not_connected"
    ELSE "remote"

\* The dispatch decision of McpManager::call_tool.
call_tool_route(m, name) ==
    IF name \notin DOMAIN m.tools THEN "tool_not_found"
    ELSE IF m.tools[name] = "builtin" THEN "builtin"
    ELSE IF m.tools[name] \notin DOMAIN m.clients THEN "server_not_connected"
    ELSE "remote"

-----------------------------------------------------------------------------
(* The state machine *)

NoCall == [name |-> "", via |-> "", res |-> "none", err |-> ""]

NoInit == [server |-> "", exchange |-> "none", res |-> "none"]

Init ==
    /\ cfgFile \in ConfigFiles
    /\ mcp_manager = NoManager
    /\ manager = NewManager
    /\ config = {}
    /\ conns = EmptyMap
    /\ pc = "LoadingConfig"
    /\ caller = "main"
    /\ todo = {}
    /\ attempted = {}
    /\ lastInit = NoInit
    /\ connOk = {}
    /\ discOrder = <<>>
    /\ last = NoCall
    /\ nCalls = 0
    /\ nReloads = 0
    /\ orphaned = FALSE
    /\ files = InitialFiles
    /\ tool = NoToolCall
    /\ nTool = 0
    /\ client = NoClient
    /\ exch = NoExchange
    /\ nReq = 0
    /\ link = NoLinks

\* The clients of constructions before `gen` are dropped with their manager.
\* Dropping a Child does not kill it: a subprocess still running stays behind.
DroppedIds(gen) == {id \in DOMAIN conns : id[1] < gen}

ConnsAfterDrop(gen) == [id \in (DOMAIN conns) \ DroppedIds(gen) |-> conns[id]]

OrphanedAfterDrop(gen) ==
    orphaned \/ \E id \in DroppedIds(gen) : conns[id].proc = "running"

\* McpManager::new, first statement: McpConfig::load()?.  On Err the caller
\* (main or reload_mcp) stores None, which drops the manager it had.
LoadConfig ==
    /\ UNCHANGED <<bvars, cvars>>
    /\ pc = "LoadingConfig"
    /\ \E io \in ConfigSaveEnvs :
       LET r == McpConfig_load(cfgFile, io)
       IN  /\ cfgFile' = r.file
           /\ IF r.res = "err"
              THEN /\ mcp_manager' = NoManager
                   /\ conns' = ConnsAfterDrop(nReloads)
                   /\ orphaned' = OrphanedAfterDrop(nReloads)
                   /\ pc' = "Ready"
                   /\ UNCHANGED <<manager, config>>
              ELSE /\ manager' = NewManager
                   /\ config' = r.servers
                   /\ pc' = "RegisterBuiltins"
                   /\ UNCHANGED <<mcp_manager, conns, orphaned>>
    /\ attempted' = {}
    /\ connOk' = {}
    /\ discOrder' = <<>>
    /\ UNCHANGED <<caller, todo, lastInit, last, nCalls, nReloads>>

\* McpManager::new: "Add built-in tools first".
RegisterBuiltins ==
    /\ UNCHANGED <<bvars, cvars>>
    /\ pc = "RegisterBuiltins"
    /\ manager' = RegisterBuiltinTools(manager)
    /\ pc' = "ConnectingServers"
    /\ todo' = config
    /\ UNCHANGED <<cfgFile, mcp_manager, config, conns, caller, attempted, lastInit,
                   connOk, discOrder, last, nCalls, nReloads, orphaned>>

\* One iteration of `for (name, server_config) in config.mcp_servers`: a
\* HashMap, so any remaining server may come next.  An Err is printed and
\* the loop continues; the client of a failed connect is dropped.
ConnectStep ==
    /\ UNCHANGED <<bvars, cvars>>
    /\ pc = "ConnectingServers"
    /\ \E s \in todo, spawnOk \in BOOLEAN, o2 \in NotifOutcomes, gone \in BOOLEAN :
         \E o1 \in (IF is_stdio(ServerDef(s)) THEN StdioOutcomes ELSE HttpOutcomes) :
           LET r == connect_server(manager, nReloads, s, spawnOk, o1, o2, gone)
           IN  /\ manager' = r.manager
               /\ conns' = IF r.res = "ok" THEN Put(conns, Cid(nReloads, s), r.conn)
                           ELSE conns
               /\ orphaned' = (orphaned \/
                                (r.res = "err" /\ r.opened /\ r.conn.proc = "running"))
               /\ attempted' = attempted \cup {s}
               /\ lastInit' = [server |-> s,
                               exchange |-> IF r.opened THEN o1 ELSE "none",
                               res |-> r.res]
               /\ connOk' = IF r.res = "ok" THEN connOk \cup {s} ELSE connOk
               /\ todo' = todo \ {s}
               /\ pc' = connect_loop_next(r.res)
    /\ UNCHANGED <<cfgFile, mcp_manager, config, caller, discOrder, last, nCalls,
                   nReloads>>

\* Mutant of connect_loop_done: the loop may be left with servers of the
\* configuration not yet tried.
connect_loop_done_early(rest) == TRUE

\* McpManager::new, connect loop: the `for` ends when the configuration's
\* map has no server left.
connect_loop_done(rest) == rest = {}

\* The connect loop is over: manager.discover_tools() starts.
ConnectDone ==
    /\ UNCHANGED <<bvars, cvars>>
    /\ pc = "ConnectingServers"
    /\ connect_loop_done(todo)
    /\ pc' = "DiscoveringTools"
    /\ todo' = DOMAIN manager.clients
    /\ lastInit' = NoInit
    /\ UNCHANGED <<cfgFile, mcp_manager, manager, config, conns, caller, attempted,
                   connOk, discOrder, last, nCalls, nReloads, orphaned>>

\* One iteration of `for (server_name, client) in &mut self.clients`.
DiscoverStep ==
    /\ UNCHANGED <<bvars, cvars>>
    /\ pc = "DiscoveringTools"
    /\ \E s \in todo :
         LET id == manager.clients[s]
         IN  \E o \in Outcomes(conns[id]) :
               LET r == McpClient_list_tools(conns[id], o)
               IN  /\ conns' = [conns EXCEPT ![id] = r.conn]
                   /\ manager' = discover_tools_merge(manager, s, r)
                   /\ discOrder' = Append(discOrder, [server |-> s, ok |-> r.res = "ok"])
                   /\ todo' = todo \ {s}
                   /\ pc' = discover_loop_next(r.res)
    /\ UNCHANGED <<cfgFile, mcp_manager, config, caller, attempted, lastInit, connOk,
                   last, nCalls, nReloads, orphaned>>

\* McpManager::new returns Ok(manager).  main keeps it if has_tools(),
\* reload_mcp always; the manager that was there before is dropped.
DiscoverDone ==
    /\ UNCHANGED <<bvars, cvars>>
    /\ pc = "DiscoveringTools"
    /\ todo = {}
    /\ IF caller = "main" /\ DOMAIN manager.tools = {}
       THEN /\ mcp_manager' = NoManager
            /\ conns' = ConnsAfterDrop(nReloads + 1)
            /\ orphaned' = OrphanedAfterDrop(nReloads + 1)
       ELSE /\ mcp_manager' = [some |-> TRUE, clients |-> manager.clients,
                               tools |-> manager.tools]
            /\ conns' = ConnsAfterDrop(nReloads)
            /\ orphaned' = OrphanedAfterDrop(nReloads)
    /\ pc' = "Ready"
    /\ UNCHANGED <<cfgFile, manager, config, caller, todo, attempted, lastInit,
                   connOk, discOrder, last, nCalls, nReloads>>

\* Mutant of clients_after_call: a failed call marks every client of the
\* manager as shut down.
clients_after_call_failAll(cs, id, r) ==
    IF r.res = "err"
    THEN [k \in DOMAIN cs |-> IF k = id THEN [r.conn EXCEPT !.shut = TRUE]
                              ELSE [cs[k] EXCEPT !.shut = TRUE]]
    ELSE [cs EXCEPT ![id] = r.conn]

\* McpManager::call_tool, remote branch: `self.clients.get_mut(server_name)`
\* borrows the one client of the owning server; the call works on it alone.
clients_after_call(cs, id, r) == [cs EXCEPT ![id] = r.conn]

\* Where the path or the redirection of a call's arguments points: at the
\* configuration file, or at some other file.
CallTargets == {"config", "other"}

\* The built-in handlers that write where their arguments say: execute_bash
\* runs `sh -c command` (the denylist has no pattern on the path), and
\* execute_write_file and execute_edit_file call fs::write(path, ..) on the
\* path given.
WritingHandlers == {"bash", "write_file", "edit_file"}

\* The configuration file after a built-in handler has run: a handler that
\* writes and succeeded on the configuration file's path has left the text
\* it was given, here text that is not JSON.
config_after_builtin(file, name, res, target) ==
    IF name \in WritingHandlers /\ res = "ok" /\ target = "config"
    THEN [state |-> "malformed", servers |-> {}]
    ELSE file

\* ChatCLI::call_mcp_tool -> McpManager::call_tool(name, arguments).
CallMcpTool ==
    /\ UNCHANGED <<bvars, cvars>>
    /\ pc = "Ready"
    /\ nCalls < MaxCalls
    /\ nCalls' = nCalls + 1
    /\ \E name \in CallNames :
         LET route == call_tool_route(mcp_manager, name)
         IN  CASE ~mcp_manager.some ->
                    /\ last' = [name |-> name, via |-> "", res |-> "err",
                                err |-> "not_initialized"]
                    /\ UNCHANGED <<cfgFile, conns, pc>>
               [] mcp_manager.some /\ route \in {"tool_not_found", "server_not_connected"} ->
                    /\ last' = [name |-> name, via |-> "", res |-> "err", err |-> route]
                    /\ UNCHANGED <<cfgFile, conns, pc>>
               [] mcp_manager.some /\ route = "builtin" ->
                    \E ho \in HandlerOutcomes, target \in CallTargets :
                      LET r == BuiltinToolRegistry_execute(name, ho)
                      IN  /\ last' = [name |-> name, via |-> "builtin", res |-> r.res,
                                      err |-> IF r.res = "err" THEN r.err ELSE ""]
                          /\ cfgFile' = config_after_builtin(cfgFile, name, r.res, target)
                          /\ UNCHANGED <<conns, pc>>
               [] mcp_manager.some /\ route = "remote" ->
                    LET id == mcp_manager.clients[mcp_manager.tools[name]]
                    IN  \E o \in Outcomes(conns[id]) :
                          LET r == McpClient_call_tool(conns[id], name, EmptyObject, o)
                          IN  /\ conns' = clients_after_call(conns, id, r)
                              /\ last' = [name |-> name, via |-> mcp_manager.tools[name],
                                          res |-> r.res,
                                          err |-> IF r.res = "err" THEN "client" ELSE ""]
                              /\ pc' = IF r.res = "hung" THEN "Hung" ELSE pc
                              /\ UNCHANGED cfgFile
    /\ UNCHANGED <<mcp_manager, manager, config, caller, todo, attempted,
                   lastInit, connOk, discOrder, nReloads, orphaned>>

\* Mutant of reload_first: the new manager is built without shutting the
\* current one down.
reload_first_noShutdown(m) == "LoadingConfig"

\* ChatCLI::reload_mcp, first statement: `if let Some(mcp)` shuts the manager
\* down before McpManager::new is called.
reload_first(m) == IF m.some THEN "ShuttingDown" ELSE "LoadingConfig"

\* ChatCLI::reload_mcp, entry.
ReloadBegin ==
    /\ UNCHANGED <<bvars, cvars>>
    /\ pc = "Ready"
    /\ nReloads < MaxReloads
    /\ nReloads' = nReloads + 1
    /\ caller' = "reload"
    /\ last' = NoCall
    /\ nCalls' = 0
    /\ pc' = reload_first(mcp_manager)
    /\ todo' = IF mcp_manager.some THEN DOMAIN mcp_manager.clients ELSE {}
    /\ UNCHANGED <<cfgFile, mcp_manager, manager, config, conns, attempted, lastInit,
                   connOk, discOrder, orphaned>>

\* Mutant of shutdown_loop_next: the Err of a client's shutdown ends the loop.
shutdown_loop_next_abort(res) == IF res = "err" THEN "LoadingConfig" ELSE "ShuttingDown"

\* McpManager::shutdown, loop: `if let Err(e) = client.shutdown().await`
\* prints the error and goes on with the next client.
shutdown_loop_next(res) == "ShuttingDown"

\* One iteration of the loop of McpManager::shutdown.
ShutdownStep ==
    /\ UNCHANGED <<bvars, cvars>>
    /\ pc = "ShuttingDown"
    /\ \E s \in todo, killOk \in BOOLEAN :
         LET id == mcp_manager.clients[s]
             r  == McpClient_shutdown(conns[id], killOk)
         IN  /\ conns' = [conns EXCEPT ![id] = r.conn]
             /\ todo' = todo \ {s}
             /\ pc' = shutdown_loop_next(r.res)
    /\ UNCHANGED <<cfgFile, mcp_manager, manager, config, caller, attempted,
                   lastInit, connOk, discOrder, last, nCalls, nReloads, orphaned>>

\* McpManager::shutdown has returned: reload_mcp calls McpManager::new.
ShutdownDone ==
    /\ UNCHANGED <<bvars, cvars>>
    /\ pc = "ShuttingDown"
    /\ todo = {}
    /\ pc' = "LoadingConfig"
    /\ UNCHANGED <<cfgFile, mcp_manager, manager, config, conns, caller, todo,
                   attempted, lastInit, connOk, discOrder, last, nCalls, nReloads,
                   orphaned>>

\* The user edits the configuration file between two commands.
EditConfig ==
    /\ UNCHANGED <<bvars, cvars>>
    /\ pc = "Ready"
    /\ nReloads < MaxReloads
    /\ cfgFile' \in ConfigFiles \ {cfgFile}
    /\ UNCHANGED <<mcp_manager, manager, config, conns, pc, caller, todo, attempted,
                   lastInit, connOk, discOrder, last, nCalls, nReloads, orphaned>>

\* McpManager::shutdown as a whole: client.shutdown() on every entry of
\* self.clients, an Err printed; the entries stay in self.clients and the
\* catalog stays as it is.  What is returned are the clients afterwards.
McpManager_shutdown(m, cs) ==
    [id \in DOMAIN cs |->
        IF id \in {m.clients[s] : s \in DOMAIN m.clients}
        THEN McpClient_shutdown(cs[id], TRUE).conn
        ELSE cs[id]]

\* main is `#[tokio::main] async fn main`: its body, and with it the drop of
\* `cli` at the end of main, runs on a thread that is driving the runtime.
InsideRuntime == TRUE

\* impl Drop for ChatCLI: with a manager present a second Runtime is made and
\* `rt.block_on(async { mcp.shutdown().await })` is called.  block_on on a
\* thread that is driving a runtime panics ("Cannot start a runtime from
\* within a runtime") before it polls the future: shutdown is not run.
\* Outside a runtime the loop of McpManager::shutdown runs to its end.
ChatCLI_drop(m, cs) ==
    IF m.some /\ ~InsideRuntime THEN McpManager_shutdown(m, cs) ELSE cs

\* /quit: ChatCLI::run returns, main reaches its end and `cli` is dropped;
\* the process ends.  A Child that was not killed keeps running.
Exit ==
    /\ UNCHANGED <<bvars, cvars>>
    /\ pc = "Ready"
    /\ pc' = "Exited"
    /\ conns' = ChatCLI_drop(mcp_manager, conns)
    /\ orphaned' = (orphaned \/ \E id \in DOMAIN conns' : conns'[id].proc = "running")
    /\ UNCHANGED <<cfgFile, mcp_manager, manager, config, caller, todo, attempted,
                   lastInit, connOk, discOrder, last, nCalls, nReloads>>

Next ==
    \/ LoadConfig
    \/ RegisterBuiltins
    \/ ConnectStep
    \/ ConnectDone
    \/ DiscoverStep
    \/ DiscoverDone
    \/ CallMcpTool
    \/ ReloadBegin
    \/ ShutdownStep
    \/ ShutdownDone
    \/ EditConfig
    \/ Exit

Spec == Init /\ [][Next]_vars

-----------------------------------------------------------------------------
(* The manager through its own operations: McpManager::new, then call_tool *)
(* and shutdown in whatever order the holder of the manager invokes them.  *)

\* McpManager::shutdown on the manager in use.
ManagerShutdown ==
    /\ UNCHANGED <<bvars, cvars>>
    /\ pc = "Ready"
    /\ mcp_manager.some
    /\ conns' = McpManager_shutdown(mcp_manager, conns)
    /\ UNCHANGED <<cfgFile, mcp_manager, manager, config, pc, caller, todo, attempted,
                   lastInit, connOk, discOrder, last, nCalls, nReloads, orphaned>>

ManagerNext ==
    \/ LoadConfig
    \/ RegisterBuiltins
    \/ ConnectStep
    \/ ConnectDone
    \/ DiscoverStep
    \/ DiscoverDone
    \/ CallMcpTool
    \/ ManagerShutdown

ManagerSpec == Init /\ [][ManagerNext]_vars


-----------------------------------------------------------------------------
(* The handlers as state machines: the caller makes up to MaxToolCalls      *)
(* calls of BuiltinToolRegistry::execute with any arguments.  The handlers  *)
(* that work on files start on a file system with any content in "f"; the   *)
(* handlers that run a subprocess or only format text do not depend on it.  *)

OptPaths == {None} \cup {Some(p) : p \in ArgPaths}

OptLines == {None} \cup {Some(n) : n \in 0..(MaxLen + 1)}

\* Text arguments: old_text, new_text, content.
OptTexts == {None, Some(<<>>), Some(<<"a">>), Some(<<"b", "\n">>)}

\* Replacement texts of edit_file.
NewTexts == {None, Some(<<>>), Some(<<"b", "\n">>)}

\* Line windows of read_file: both ends, neither, or one of them.
OptWindows ==
    {<<s, e>> : s \in OptLines \ {None}, e \in OptLines \ {None}}
        \cup {<<None, None>>, <<Some(1), None>>, <<None, Some(1)>>}

\* What the operating system allows a handler that writes.
WriteEnvs == {"ok", "mkdir_err", "write_err"}

\* The federation layer at rest, before main builds a manager.
FederationIdle ==
    /\ cfgFile = [state |-> "absent", servers |-> {}]
    /\ mcp_manager = NoManager
    /\ manager = NewManager
    /\ config = {}
    /\ conns = EmptyMap
    /\ pc = "LoadingConfig"
    /\ caller = "main"
    /\ todo = {}
    /\ attempted = {}
    /\ lastInit = NoInit
    /\ connOk = {}
    /\ discOrder = <<>>
    /\ last = NoCall
    /\ nCalls = 0
    /\ nReloads = 0
    /\ orphaned = FALSE

\* No McpClient is used outside a manager.
NoDirectClient ==
    /\ client = NoClient
    /\ exch = NoExchange
    /\ nReq = 0
    /\ link = NoLinks

FileToolInit ==
    /\ FederationIdle
    /\ \E c \in Contents :
         files = [p \in RegularPaths \cup NewDirs |-> IF p = "f" THEN File(c) ELSE NoFile]
    /\ tool = NoToolCall
    /\ nTool = 0
    /\ NoDirectClient

ShellToolInit ==
    /\ FederationIdle
    /\ files = InitialFiles
    /\ tool = NoToolCall
    /\ nTool = 0
    /\ NoDirectClient

\* The operating system is consulted only for a command that gets as far as
\* the spawn.
BashEnvsFor(command) ==
    IF command = None \/ first_dangerous(command[1]) # 0
    THEN {[spawn |-> TRUE, dur |-> Some(0), stdout |-> <<>>, stderr |-> <<>>,
           exit |-> "0"]}
    ELSE BashEnvs

\* The caller can make another call: the last one returned.
CanCall ==
    /\ nTool < MaxToolCalls
    /\ tool.res.kind \notin {"never_returns", "panic"}

\* A handler that leaves the file system alone has returned `r`.
Returned(name, args, r) ==
    /\ tool' = [name |-> name, args |-> args, res |-> r]
    /\ nTool' = nTool + 1
    /\ UNCHANGED files

\* A handler that may write has returned `r.res`, leaving `r.files`.
ReturnedFs(name, args, r) ==
    /\ tool' = [name |-> name, args |-> args, res |-> r.res]
    /\ nTool' = nTool + 1
    /\ files' = r.files

ExecBash ==
    /\ CanCall
    /\ \E command \in {None} \cup {Some(c) : c \in Commands},
          timeout \in {None, Some(1)} :
       \E env \in BashEnvsFor(command) :
         LET args == [command |-> command, timeout |-> timeout]
         IN  /\ tool' = [name |-> "bash", args |-> args, env |-> env,
                         res |-> execute_bash(args, env)]
             /\ nTool' = nTool + 1
             /\ UNCHANGED files
    /\ UNCHANGED <<mvars, cvars>>

ExecReadFile ==
    /\ CanCall
    /\ \E path \in OptPaths, w \in OptWindows :
         LET args == [path |-> path, start_line |-> w[1], end_line |-> w[2]]
         IN  Returned("read_file", args, execute_read_file(files, args))
    /\ UNCHANGED <<mvars, cvars>>

ExecListFiles ==
    /\ CanCall
    /\ \E path \in OptPaths, recursive \in BOOLEAN,
          order \in {<<"f", "n">>, <<"n", "f">>} :
         LET args == [path |-> path, recursive |-> recursive]
         IN  Returned("list_files", args, execute_list_files(files, args, order))
    /\ UNCHANGED <<mvars, cvars>>

ExecSearchGlob ==
    /\ CanCall
    /\ \E pattern \in {None} \cup {Some(g) : g \in GlobPatterns},
          base_path \in {None, Some(<<"d">>)}, spawnOk \in BOOLEAN, found \in BOOLEAN :
         LET args == [pattern |-> pattern, base_path |-> base_path]
         IN  Returned("search_glob", args, execute_search_glob(args, spawnOk, found))
    /\ UNCHANGED <<mvars, cvars>>

ExecGrep ==
    /\ CanCall
    /\ \E pattern \in {None, Some("a"), Some("b"), Some("f")},
          path \in {None, Some("f"), Some("ro/x")},
          recursive \in BOOLEAN, ignore_case \in BOOLEAN, env \in GrepEnvs :
         LET args == [pattern |-> pattern, path |-> path, recursive |-> recursive,
                      ignore_case |-> ignore_case]
         IN  Returned("grep", args, execute_grep(files, args, env))
    /\ UNCHANGED <<mvars, cvars>>

ExecEditFile ==
    /\ CanCall
    /\ \E path \in OptPaths, old_text \in OptTexts, new_text \in NewTexts,
          io \in {"ok", "write_err"} :
         LET args == [path |-> path, old_text |-> old_text, new_text |-> new_text]
         IN  ReturnedFs("edit_file", args, execute_edit_file(files, args, io))
    /\ UNCHANGED <<mvars, cvars>>

ExecWriteFile ==
    /\ CanCall
    /\ \E path \in OptPaths, content \in OptTexts, io \in WriteEnvs :
         LET args == [path |-> path, content |-> content]
         IN  ReturnedFs("write_file", args, execute_write_file(files, args, io))
    /\ UNCHANGED <<mvars, cvars>>

ExecThink ==
    /\ CanCall
    /\ \E thoughts \in {None, Some("t")} :
         LET args == [thoughts |-> thoughts]
         IN  Returned("think", args, execute_think(args))
    /\ UNCHANGED <<mvars, cvars>>

FileToolNext ==
    \/ ExecReadFile
    \/ ExecListFiles
    \/ ExecEditFile
    \/ ExecWriteFile

FileToolSpec == FileToolInit /\ [][FileToolNext]_vars

ShellToolNext ==
    \/ ExecBash
    \/ ExecSearchGlob
    \/ ExecGrep
    \/ ExecThink

ShellToolSpec == ShellToolInit /\ [][ShellToolNext]_vars

-----------------------------------------------------------------------------
(* One McpClient used through its own operations: connect_stdio or          *)
(* connect_http, then list_tools, call_tool and shutdown in any order, the  *)
(* server answering each request in any of the ways it can.                 *)

\* Number of list_tools / call_tool calls in one run.
MaxRequests == 3

ClientInit ==
    /\ FederationIdle
    /\ files = InitialFiles
    /\ tool = NoToolCall
    /\ nTool = 0
    /\ NoDirectClient

\* The caller is not blocked inside an operation that never returns.
ClientIdle == exch.res # "hung"

\* McpClient::connect_stdio / McpClient::connect_http.
ClientConnect ==
    /\ ClientIdle
    /\ client = NoClient
    /\ \E s \in {"s1", "s2"}, spawnOk \in BOOLEAN, o2 \in NotifOutcomes, gone \in BOOLEAN :
         \E o1 \in (IF is_stdio(ServerDef(s)) THEN StdioOutcomes ELSE HttpOutcomes) :
           LET r == IF is_stdio(ServerDef(s))
                    THEN McpClient_connect_stdio(s, spawnOk, o1, o2, gone)
                    ELSE McpClient_connect_http(s, o1)
           IN  /\ client' = IF r.res = "ok" THEN r.conn ELSE NoClient
               /\ exch' = [op |-> "connect", o |-> IF r.opened THEN o1 ELSE "none",
                           res |-> r.res, tools |-> {},
                           err |-> McpClient_error(IF is_stdio(ServerDef(s)) THEN "stdio" ELSE "http",
                                                   r, o1),
                           rid |-> 1, from |-> 0, sent |-> NoRequest]
    /\ UNCHANGED <<mvars, bvars, nReq, link>>

\* list_tools on the client returns, the server having answered with
\* outcome o.
ListToolsReturns(o) ==
    LET r == McpClient_list_tools(client, o)
    IN  /\ client' = r.conn
        /\ exch' = [op |-> "list_tools", o |-> o, res |-> r.res, tools |-> r.tools,
                    err |-> McpClient_error(client.kind, r, o),
                    rid |-> client.request_id,
                    from |-> McpClient_from(client.kind, r), sent |-> r.sent]

\* call_tool on the client returns.
CallToolReturns(name, arguments, o) ==
    LET r == McpClient_call_tool(client, name, arguments, o)
    IN  /\ client' = r.conn
        /\ exch' = [op |-> "call_tool", o |-> o, res |-> r.res, tools |-> {},
                    err |-> McpClient_error(client.kind, r, o),
                    rid |-> client.request_id,
                    from |-> McpClient_from(client.kind, r), sent |-> r.sent]

\* McpClient::list_tools.
ClientListTools ==
    /\ ClientIdle
    /\ client # NoClient
    /\ nReq < MaxRequests
    /\ \E o \in Outcomes(client) : ListToolsReturns(o)
    /\ nReq' = nReq + 1
    /\ UNCHANGED <<mvars, bvars, link>>

\* McpClient::call_tool.
ClientCallTool ==
    /\ ClientIdle
    /\ client # NoClient
    /\ nReq < MaxRequests
    /\ \E o \in Outcomes(client), name \in ServerTools(client.server),
          arguments \in ToolArguments :
         CallToolReturns(name, arguments, o)
    /\ nReq' = nReq + 1
    /\ UNCHANGED <<mvars, bvars, link>>

\* McpClient::shutdown.
ClientShutdown ==
    /\ ClientIdle
    /\ client # NoClient
    /\ ~client.shut
    /\ \E killOk \in BOOLEAN :
         LET r == McpClient_shutdown(client, killOk)
         IN  /\ client' = r.conn
             /\ exch' = [op |-> "shutdown", o |-> "none", res |-> r.res, tools |-> {},
                         err |-> IF r.res = "err" THEN <<"io::Error">> ELSE <<>>,
                         rid |-> 0, from |-> 0, sent |-> NoRequest]
    /\ UNCHANGED <<mvars, bvars, nReq, link>>

ClientNext ==
    \/ ClientConnect
    \/ ClientListTools
    \/ ClientCallTool
    \/ ClientShutdown

ClientSpec == ClientInit /\ [][ClientNext]_vars

-----------------------------------------------------------------------------
(* One stdio client and a server that also writes lines nobody asked for:  *)
(* a notification before the response, in a write of its own or in the     *)
(* same write as the response.                                              *)

\* The outcomes possible on the stdio connection c with such a server.
PipeOutcomes(c) ==
    IF c.proc = "running" THEN StdioOutcomes \cup FramingOutcomes
    ELSE {"write_err", "read_err"}

\* McpClient::connect_stdio.
PipeConnect ==
    /\ ClientIdle
    /\ client = NoClient
    /\ exch = NoExchange
    /\ \E o1 \in StdioOutcomes \cup FramingOutcomes, o2 \in NotifOutcomes :
         LET r == McpClient_connect_stdio("s1", TRUE, o1, o2, FALSE)
         IN  /\ client' = IF r.res = "ok" THEN r.conn ELSE NoClient
             /\ exch' = [op |-> "connect", o |-> o1, res |-> r.res, tools |-> {},
                         err |-> r.err, rid |-> 1, from |-> 0, sent |-> NoRequest]
    /\ UNCHANGED <<mvars, bvars, nReq, link>>

\* McpClient::list_tools.
PipeListTools ==
    /\ ClientIdle
    /\ client # NoClient
    /\ nReq < MaxRequests
    /\ \E o \in PipeOutcomes(client) : ListToolsReturns(o)
    /\ nReq' = nReq + 1
    /\ UNCHANGED <<mvars, bvars, link>>

\* McpClient::call_tool.
PipeCallTool ==
    /\ ClientIdle
    /\ client # NoClient
    /\ nReq < MaxRequests
    /\ \E o \in PipeOutcomes(client), name \in ServerTools(client.server) :
         CallToolReturns(name, EmptyObject, o)
    /\ nReq' = nReq + 1
    /\ UNCHANGED <<mvars, bvars, link>>

PipeNext ==
    \/ PipeConnect
    \/ PipeListTools
    \/ PipeCallTool

StdioPipeSpec == ClientInit /\ [][PipeNext]_vars

-----------------------------------------------------------------------------
(* Two stdio clients held side by side, each operation in two steps: the   *)
(* request line is written, and later send_request returns with what the   *)
(* server did.  Nothing but the client value itself is shared between the  *)
(* operations of a client; the two clients share nothing.                   *)

\* What comes back for the oldest pending request of link k with outcome o.
LinkReturn(k, o, o2) ==
    LET op == Head(k.pending)
    IN  CASE op = "initialize" ->
               StdioClient_new("s1", TRUE, o, o2, FALSE)
          [] op = "tools/list" -> McpClient_list_tools(k.conn, o)
          [] OTHER -> McpClient_call_tool(k.conn, "a", EmptyObject, o)

\* An operation on client l starts and writes its request line: initialize
\* when the client is being connected, tools/list or tools/call after.
LinkWrite ==
    /\ \E l \in Links :
         /\ CanStartRequest(link[l])
         /\ IF link[l].conn = NoClient
            THEN /\ link' = [link EXCEPT ![l].pending = Append(@, "initialize")]
                 /\ UNCHANGED nReq
            ELSE /\ nReq < MaxRequests
                 /\ \E op \in {"tools/list", "tools/call"} :
                      link' = [link EXCEPT ![l].pending = Append(@, op)]
                 /\ nReq' = nReq + 1
    /\ UNCHANGED <<mvars, bvars, client, exch>>

\* send_request of the oldest pending request of client l returns, or is
\* found never to return; a connect that failed leaves no client.
LinkRead ==
    /\ \E l \in Links :
         /\ link[l].pending # <<>>
         /\ ~link[l].blocked
         /\ \E o \in (IF link[l].conn = NoClient THEN StdioOutcomes
                       ELSE Outcomes(link[l].conn)),
               o2 \in NotifOutcomes :
              LET r == LinkReturn(link[l], o, o2)
              IN  link' = [link EXCEPT ![l] =
                             IF r.res = "hung" THEN [@ EXCEPT !.blocked = TRUE]
                             ELSE [conn |-> IF Head(@.pending) = "initialize" /\ r.res # "ok"
                                            THEN NoClient ELSE r.conn,
                                   pending |-> Tail(@.pending),
                                   blocked |-> FALSE]]
    /\ UNCHANGED <<mvars, bvars, client, exch, nReq>>

TwoClientNext ==
    \/ LinkWrite
    \/ LinkRead

TwoClientSpec == ClientInit /\ [][TwoClientNext]_vars

-----------------------------------------------------------------------------
(* Properties *)

\* A step that is one McpManager::call_tool(last'.name, _) on an existing manager.
IsCallStep == nCalls' = nCalls + 1 /\ mcp_manager.some

\* The connections the manager in use holds, and those of the one being built.
HeldIds(m) == {m.clients[s] : s \in DOMAIN m.clients}

\* The requests a step added to connection id's log.
Sent(id) == SubSeq(conns'[id].wire, Len(conns[id].wire) + 1, Len(conns'[id].wire))

\* C1: call_tool for a name that is not in the catalog returns a "tool not
\* found" error; no built-in handler runs, no request is written to any
\* connection, and no success result is returned.
C1_UnknownNameIsToolNotFound ==
    [][(IsCallStep /\ last'.name \notin DOMAIN mcp_manager.tools)
        => /\ last'.res = "err"
           /\ last'.err = "tool_not_found"
           /\ last'.via = ""
           /\ conns' = conns]_vars

\* C1 witness: a call for a name missing from a non-empty catalog was answered.
C1_Witness ==
    /\ pc = "Ready"
    /\ mcp_manager.some
    /\ last.res # "none"
    /\ last.name \notin DOMAIN mcp_manager.tools
    /\ last.err = "tool_not_found"
    /\ DOMAIN mcp_manager.clients # {}

\* C2: call_tool for a cataloged name dispatches by the entry's owner: owner
\* "builtin" runs the built-in registry and sends nothing to any server; any
\* other owner sends exactly one tools/call request on the connection held
\* under that owner's name, and nothing on any other, and runs no built-in
\* handler; with no connection under that owner the call fails with "server
\* not connected".
C2_DispatchByOwner ==
    [][(IsCallStep /\ last'.name \in DOMAIN mcp_manager.tools)
        => LET owner == mcp_manager.tools[last'.name]
           IN  IF owner = "builtin"
               THEN last'.via = "builtin" /\ conns' = conns
               ELSE IF owner \in DOMAIN mcp_manager.clients
               THEN /\ last'.via = owner
                    /\ last'.err \notin {"tool_not_found", "server_not_connected"}
                    /\ DOMAIN conns' = DOMAIN conns
                    /\ \A id \in DOMAIN conns :
                         IF id = mcp_manager.clients[owner]
                         THEN /\ Len(Sent(id)) = 1
                              /\ Sent(id)[1].method = "tools/call"
                         ELSE conns'[id] = conns[id]
               ELSE /\ last'.res = "err"
                    /\ last'.err = "server_not_connected"
                    /\ last'.via = ""
                    /\ conns' = conns]_vars

\* C2 witness: a tool whose name is also a built-in's, owned by server s2, was
\* called and answered by that server.
C2_Witness ==
    /\ pc = "Ready"
    /\ mcp_manager.some
    /\ last.name = "bash"
    /\ last.via = "s2"
    /\ last.res = "ok"
    /\ mcp_manager.tools["bash"] = "s2"

\* The servers discover_tools has visited, and those whose list_tools succeeded.
Visited == {discOrder[i].server : i \in 1..Len(discOrder)}

Listed == {discOrder[i].server : i \in {j \in 1..Len(discOrder) : discOrder[j].ok}}

\* C3: whatever subset of the configured servers fails to connect,
\* construction goes on: the catalog contains every built-in tool, a connect
\* is attempted for every configured server, and the connections held are
\* exactly those of the servers whose connect succeeded.
C3_ConnectFailureIsSkipped ==
    /\ (lastInit.res = "err" => pc = "ConnectingServers")
    /\ pc = "ConnectingServers"
         => /\ attempted \cup todo = config
            /\ DOMAIN manager.clients = connOk
            /\ BuiltinNames \subseteq DOMAIN manager.tools
    /\ pc = "DiscoveringTools"
         => /\ attempted = config
            /\ DOMAIN manager.clients = connOk
            /\ BuiltinNames \subseteq DOMAIN manager.tools
    /\ (pc = "Ready" /\ mcp_manager.some)
         => /\ attempted = config
            /\ DOMAIN mcp_manager.clients = connOk
            /\ BuiltinNames \subseteq DOMAIN mcp_manager.tools

\* C3 witness: a manager built from a configuration of which one server
\* failed to connect and another connected.
C3_Witness ==
    /\ pc = "Ready"
    /\ mcp_manager.some
    /\ config = {"s1", "s2"}
    /\ attempted = config
    /\ DOMAIN mcp_manager.clients = {"s2"}
    /\ BuiltinNames \subseteq DOMAIN mcp_manager.tools

\* The catalog that the built-ins and the successfully listed servers give,
\* as a set of names, and whether catalog `tools` has only those owners.
ListedNames == UNION {ServerTools(s) : s \in Listed}

\* C4: a listTools failure during discovery does not end construction: the
\* failing server contributes no entry, every other connected server is still
\* asked and its tools are merged, and the built-in entries remain (unless a
\* server that was listed defines the same name).
C4_DiscoveryFailureIsTolerated ==
    /\ pc = "DiscoveringTools"
         => /\ Visited \cup todo = DOMAIN manager.clients
            /\ DOMAIN manager.tools = BuiltinNames \cup ListedNames
            /\ \A n \in DOMAIN manager.tools :
                 IF n \in ListedNames
                 THEN manager.tools[n] \in {s \in Listed : n \in ServerTools(s)}
                 ELSE manager.tools[n] = "builtin"
    /\ (pc = "Ready" /\ discOrder # <<>>)
         => /\ mcp_manager.some
            /\ Visited = DOMAIN mcp_manager.clients
            /\ DOMAIN mcp_manager.tools = BuiltinNames \cup ListedNames
            /\ \A n \in DOMAIN mcp_manager.tools :
                 IF n \in ListedNames
                 THEN mcp_manager.tools[n] \in {s \in Listed : n \in ServerTools(s)}
                 ELSE mcp_manager.tools[n] = "builtin"

\* C4 witness: the first server asked failed to list its tools, the second
\* one was still asked, and its tools are in the finished catalog.
C4_Witness ==
    /\ pc = "Ready"
    /\ mcp_manager.some
    /\ Len(discOrder) = 2
    /\ ~discOrder[1].ok
    /\ discOrder[2].ok
    /\ discOrder[2].server = "s2"
    /\ "c" \in DOMAIN mcp_manager.tools
    /\ "a" \notin DOMAIN mcp_manager.tools
    /\ mcp_manager.tools["think"] = "builtin"

\* The positions of discOrder at which name n was successfully listed.
ListedAt(n) ==
    {i \in 1..Len(discOrder) : discOrder[i].ok /\ n \in ServerTools(discOrder[i].server)}

Max(S) == CHOOSE x \in S : \A y \in S : y <= x

AllToolNames == BuiltinNames \cup UNION {ServerTools(s) : s \in ServerNames}

\* The owner last-registered-wins gives name n in catalog `tools`.
LastWins(tools, n) ==
    IF ListedAt(n) # {}
    THEN n \in DOMAIN tools /\ tools[n] = discOrder[Max(ListedAt(n))].server
    ELSE IF n \in BuiltinNames
    THEN n \in DOMAIN tools /\ tools[n] = "builtin"
    ELSE n \notin DOMAIN tools

\* C5: duplicate names are resolved last-registered-wins: the owner of a name
\* is the last server in discovery order that listed it, and a remote tool
\* named like a built-in replaces the built-in entry.
C5_LastRegisteredWins ==
    /\ pc = "DiscoveringTools" => \A n \in AllToolNames : LastWins(manager.tools, n)
    /\ (pc = "Ready" /\ mcp_manager.some) => \A n \in AllToolNames : LastWins(mcp_manager.tools, n)

\* C5 witness: S1 {a, b} was listed before S2 {b, c, bash}: b and bash end
\* owned by S2.
C5_Witness ==
    /\ pc = "Ready"
    /\ mcp_manager.some
    /\ discOrder = <<[server |-> "s1", ok |-> TRUE], [server |-> "s2", ok |-> TRUE]>>
    /\ mcp_manager.tools["a"] = "s1"
    /\ mcp_manager.tools["b"] = "s2"
    /\ mcp_manager.tools["bash"] = "s2"

\* The ways an initialize exchange can fail: transport error, no response,
\* a response that is not JSON, a response without a result.
FailedExchanges == {"write_err", "read_err", "died", "status_err", "bad_json", "no_result"}

IsToolRequest(msg) == msg.method \in {"tools/list", "tools/call"}

\* C6: on every connection handed to the caller, stdio or HTTP, the first
\* message is the initialize request, the second the initialized notification
\* (without id), and every tools/list or tools/call comes after both.
C6_HandshakeThenInitialized ==
    \A id \in DOMAIN conns :
      LET w == conns[id].wire
      IN  /\ Len(w) >= 2
          /\ w[1].method = "initialize"
          /\ w[1].idKind # "none"
          /\ w[2] = Notif("notifications/initialized")
          /\ \A i \in 1..Len(w) : IsToolRequest(w[i]) => i > 2

\* C7: if the initialize exchange of the latest connect failed (transport
\* error, no response, invalid JSON, or a response without result), connect
\* returned an error, the manager registered no connection for that server,
\* and no client exists through which a request could be sent to it.
C7_FailedInitializeIsConnectError ==
    lastInit.exchange \in FailedExchanges
      => /\ lastInit.res = "err"
         /\ lastInit.server \notin DOMAIN manager.clients
         /\ Cid(nReloads, lastInit.server) \notin DOMAIN conns

\* C8: no partial or zombie connection: a subprocess whose handshake failed
\* is terminated, and between operations every running subprocess spawned by
\* the client belongs to a connection a manager holds.
C8_NoZombieSubprocess ==
    pc # "Hung"
      => /\ ~orphaned
         /\ \A id \in DOMAIN conns :
              conns[id].proc = "running"
                => id \in HeldIds(mcp_manager) \cup HeldIds(manager)

\* C9: reload shuts down every connection the manager holds before it loads
\* the configuration and before any new connect: while the new manager is
\* being built, shutdown has been invoked on every connection of the old one.
C9_ShutdownBeforeReconnect ==
    pc \in {"LoadingConfig", "RegisterBuiltins", "ConnectingServers", "DiscoveringTools"}
      => \A s \in DOMAIN mcp_manager.clients : conns[mcp_manager.clients[s]].shut

\* C9 witness: during a reload a new connect has been attempted, and the old
\* manager held two connections.
C9_Witness ==
    /\ pc = "ConnectingServers"
    /\ nReloads = 1
    /\ attempted # {}
    /\ mcp_manager.some
    /\ Cardinality(DOMAIN mcp_manager.clients) = 2
    /\ \A s \in DOMAIN mcp_manager.clients : conns[mcp_manager.clients[s]].shut

\* C10: after a reload the catalog is exactly the built-in tools plus the
\* tools listed by the servers connected during that reload, each name with
\* one owner, and no catalog entry or connection from before the reload
\* survives.
C10_CatalogRebuiltOnReload ==
    (pc = "Ready" /\ nReloads > 0)
      => /\ DOMAIN mcp_manager.tools = BuiltinNames \cup ListedNames
         /\ \A n \in AllToolNames : LastWins(mcp_manager.tools, n)
         /\ Listed \subseteq connOk
         /\ DOMAIN mcp_manager.clients = connOk
         /\ \A id \in DOMAIN conns : id[1] = nReloads
         /\ HeldIds(mcp_manager) \subseteq DOMAIN conns

\* C11: a malformed configuration file is recoverable: McpManager::new falls
\* back to the empty configuration and goes on to register the built-in
\* tools, at startup and on reload; it never ends with no manager.
C11_MalformedConfigFallsBack ==
    [][(pc = "LoadingConfig" /\ cfgFile.state = "malformed")
         => /\ pc' = "RegisterBuiltins"
            /\ config' = {}
            /\ ~(pc' = "Ready" /\ ~mcp_manager'.some)]_vars

\* The arguments each handler requires.
RequiredArgs(name) ==
    CASE name = "bash"        -> {"command"}
      [] name = "read_file"   -> {"path"}
      [] name = "search_glob" -> {"pattern"}
      [] name = "grep"        -> {"pattern", "path"}
      [] name = "edit_file"   -> {"path", "old_text", "new_text"}
      [] name = "write_file"  -> {"path", "content"}
      [] name = "think"       -> {"thoughts"}
      [] OTHER                -> {}

\* The latest call carried every argument its handler requires.
ArgsPresent == \A k \in RequiredArgs(tool.name) : tool.args[k] # None

\* C12: a handler failure other than a missing or malformed required
\* argument (read_file or edit_file on a missing file, list_files on a
\* missing directory, write_file to an unwritable path) is a result with
\* is_error = true, never an error raised to the caller of execute.
C12_HandlerFailureIsErrorResult ==
    (nTool > 0 /\ ArgsPresent) => tool.res.kind # "raised"

\* The window the claim describes for read_file(start, end) on n lines: a
\* zero or out-of-range start is the first line, an end beyond the last line
\* is the last line.
ClampedStart(start, n) == IF start = 0 \/ start > n THEN 1 ELSE start

ClampedEnd(end, n) == IF end > n THEN n ELSE end

\* C20: read_file with both start_line and end_line on a readable file never
\* faults and returns, as a success result, the lines from the clamped start
\* to the clamped end, joined by newlines.
C20_ReadFileWindowClamps ==
    (/\ tool.name = "read_file"
     /\ tool.args.path # None
     /\ fs_read_to_string(files, tool.args.path[1]) # None
     /\ tool.args.start_line # None
     /\ tool.args.end_line # None)
      => LET lines == Lines(files[tool.args.path[1]].content)
             n     == Len(lines)
         IN  /\ tool.res.kind = "ok"
             /\ tool.res.data = Join(SubSeq(lines, ClampedStart(tool.args.start_line[1], n),
                                            ClampedEnd(tool.args.end_line[1], n)),
                                     <<"\n">>)

\* C13: on both transports, a tools/list response without a well-formed
\* result.tools and a tools/call response without a well-formed result (a
\* JSON-RPC error object included) make list_tools / call_tool return an
\* error: never Ok, with an empty tool list or an empty result.
C13_MalformedResultIsError ==
    (exch.op \in {"list_tools", "call_tool"} /\ exch.o = "no_result")
      => (exch.res = "err" /\ exch.tools = {})

\* C13 witness: an HTTP server answered tools/list with JSON that has no
\* result.tools, and list_tools returned an error.
C13_Witness ==
    /\ client.kind = "http"
    /\ exch.op = "list_tools"
    /\ exch.o = "no_result"
    /\ exch.res = "err"

\* C14: McpManager::shutdown invokes transport shutdown once on every
\* connection the manager holds, a failed shutdown included: each step of
\* the loop shuts down one connection that was not shut down yet, leaves a
\* stdio subprocess not running and stays in the loop; the loop is left only
\* when every held connection has been visited; and while it runs it can
\* always take its next step, so it completes after at most one step per
\* connection.
C14_ShutdownVisitsAllAndCompletes ==
    /\ [][pc = "ShuttingDown"
            => \/ /\ pc' = "ShuttingDown"
                  /\ \E s \in todo :
                       LET id == mcp_manager.clients[s]
                       IN  /\ todo' = todo \ {s}
                           /\ ~conns[id].shut
                           /\ conns'[id].shut
                           /\ conns[id].kind = "stdio" => conns'[id].proc # "running"
                           /\ \A other \in (DOMAIN conns) \ {id} :
                                conns'[other] = conns[other]
               \/ /\ pc' = "LoadingConfig"
                  /\ todo = {}
                  /\ \A s \in DOMAIN mcp_manager.clients :
                       conns[mcp_manager.clients[s]].shut]_vars
    /\ [](pc = "ShuttingDown" => ENABLED (ShutdownStep \/ ShutdownDone))

\* C14 witness: shutdown has returned after visiting two connections, one of
\* them a stdio connection whose subprocess had already exited, the case in
\* which kill can report an error.
C14_Witness ==
    /\ pc = "LoadingConfig"
    /\ nReloads > 0
    /\ todo = {}
    /\ Cardinality(DOMAIN mcp_manager.clients) = 2
    /\ \A s \in DOMAIN mcp_manager.clients : conns[mcp_manager.clients[s]].shut
    /\ \E s \in DOMAIN mcp_manager.clients :
         /\ conns[mcp_manager.clients[s]].kind = "stdio"
         /\ conns[mcp_manager.clients[s]].proc = "exited"

\* C15: a call that fails on the connection of server A (transport or
\* protocol error) leaves the catalog, the set of connections and every
\* other connection (its request-id counter, subprocess and log) as they
\* were, and the CLI ready for the next call; so every later call to another
\* server's tool or to a built-in tool finds the state it would have found
\* without the failure.
C15_FailureIsolatedPerServer ==
    [][(IsCallStep /\ last'.res = "err" /\ last'.err = "client")
         => LET id == mcp_manager.clients[last'.via]
            IN  /\ mcp_manager' = mcp_manager
                /\ DOMAIN conns' = DOMAIN conns
                /\ \A other \in (DOMAIN conns) \ {id} : conns'[other] = conns[other]
                /\ pc' = "Ready"
                /\ \A name \in CallNames :
                     call_tool_route(mcp_manager', name) = call_tool_route(mcp_manager, name)]_vars

\* C15 witness: with two servers connected, the subprocess of s1 died during
\* a tools/call, and the next call, to a tool of s2, succeeded.
C15_Witness ==
    /\ pc = "Ready"
    /\ mcp_manager.some
    /\ DOMAIN mcp_manager.clients = {"s1", "s2"}
    /\ LET c1 == conns[mcp_manager.clients["s1"]]
       IN  /\ c1.proc = "exited"
           /\ c1.wire[Len(c1.wire)].method = "tools/call"
    /\ nCalls = 2
    /\ last.via = "s2"
    /\ last.res = "ok"

\* C16: if the stdio subprocess exits or its pipe closes while a request is
\* in flight (while the request is written, or after), that list_tools /
\* call_tool call returns an error: not a success result, and it does not
\* block forever.
C16_ExitMidRequestIsError ==
    (/\ client.kind = "stdio"
     /\ exch.op \in {"list_tools", "call_tool"}
     /\ exch.o \in {"write_err", "read_err", "died"})
      => (exch.res = "err" /\ exch.tools = {})

\* C16 witness: the subprocess exited during a tools/call that had been
\* written, and call_tool returned an error.
C16_Witness ==
    /\ client.kind = "stdio"
    /\ exch.op = "call_tool"
    /\ exch.o = "died"
    /\ client.proc = "exited"
    /\ exch.res = "err"

\* C17: connect and every request terminate even when the remote stalls: no
\* operation is left waiting forever for a response, whatever the server
\* does, a stdio server that takes the request line and never answers
\* included.
C17_NoOperationBlocksForever == pc # "Hung"

\* The denylisted patterns the command of the latest bash call contains.
MatchedPatterns ==
    {dangerous_patterns[i] : i \in {j \in DOMAIN dangerous_patterns :
                                      Contains(tool.args.command[1], dangerous_patterns[j])}}

\* The timeout of the latest bash call, in seconds.
TimeoutOfCall ==
    IF tool.args.timeout = None THEN DefaultTimeout ELSE tool.args.timeout[1]

\* C18: a bash call whose command contains a denylisted substring returns a
\* result with is_error = true whose message names a pattern the command
\* contains, and the call spawns no subprocess.
C18_DenylistBlocksBeforeSpawn ==
    (tool.name = "bash" /\ tool.args.command # None /\ MatchedPatterns # {})
      => /\ tool.res.kind = "is_error"
         /\ tool.res.msg = "Command blocked for security: contains"
         /\ tool.res.data \in MatchedPatterns
         /\ tool.res.spawns = <<>>

\* C18 witness: a command containing "format" and "mkfs" was rejected, the
\* message naming "mkfs".
C18_Witness ==
    /\ tool.name = "bash"
    /\ tool.args.command # None
    /\ Cardinality(MatchedPatterns) = 2
    /\ tool.res.kind = "is_error"
    /\ tool.res.data = <<"m", "k", "f", "s">>
    /\ tool.res.spawns = <<>>

\* C19: when the command of a bash call is still running after the call's
\* timeout (default 30 seconds), the handler returns an error result that
\* reports the timeout, and it returns when the timeout elapses.
C19_BashTimeoutReturnsError ==
    (/\ tool.name = "bash"
     /\ tool.res.spawns # <<>>
     /\ (tool.env.dur = None \/ tool.env.dur[1] > TimeoutOfCall))
      => /\ tool.res.kind = "is_error"
         /\ tool.res.msg = "Command timed out after"
         /\ tool.res.elapsed = TimeoutOfCall

\* A step that is one execute call.
IsToolStep == nTool' = nTool + 1

\* C21: an edit_file call whose old_text does not occur in the file (which
\* exists and is readable) returns an error result and leaves the file
\* system as it was; in particular when the call repeats an edit that was
\* applied and whose old_text is now absent.
C21_EditAbsentTextFailsUnchanged ==
    [][(/\ IsToolStep
        /\ tool'.name = "edit_file"
        /\ tool'.args.path # None
        /\ tool'.args.old_text # None
        /\ tool'.args.new_text # None
        /\ fs_read_to_string(files, tool'.args.path[1]) # None
        /\ ~Contains(fs_read_to_string(files, tool'.args.path[1])[1],
                     tool'.args.old_text[1]))
         => /\ tool'.res.kind = "is_error"
            /\ tool'.res.msg = "Old text not found in file. Text must match exactly."
            /\ files' = files]_vars

\* C21 witness: the edit "a" to "b\n" was made on "f" a second time: it
\* failed, and "f" holds the edited content.
C21_Witness ==
    /\ nTool = 2
    /\ tool.name = "edit_file"
    /\ tool.args = [path |-> Some("f"), old_text |-> Some(<<"a">>),
                    new_text |-> Some(<<"b", "\n">>)]
    /\ tool.res.kind = "is_error"
    /\ files["f"] = File(<<"b", "\n">>)

\* C22: after a write_file call that succeeded, the file holds exactly the
\* written content and its parent directory exists, whatever was there
\* before; and a read_file call on the same path without a line window,
\* made right after it, returns exactly the written content as a success
\* result.
C22_WriteThenReadRoundTrip ==
    /\ []((tool.name = "write_file" /\ tool.res.kind = "ok")
            => /\ files[tool.args.path[1]] = File(tool.args.content[1])
               /\ ParentExists(files, tool.args.path[1]))
    /\ [][(/\ tool.name = "write_file"
           /\ tool.res.kind = "ok"
           /\ IsToolStep
           /\ tool'.name = "read_file"
           /\ tool'.args.path = tool.args.path
           /\ (tool'.args.start_line = None \/ tool'.args.end_line = None))
            => /\ tool'.res.kind = "ok"
               /\ tool'.res.data = tool.args.content[1]]_vars

\* C22 witness: "n/h", whose directory did not exist at the start, was
\* written and then read back.
C22_Witness ==
    /\ nTool = 2
    /\ tool.name = "read_file"
    /\ tool.args = [path |-> Some("n/h"), start_line |-> None, end_line |-> None]
    /\ tool.res.kind = "ok"
    /\ tool.res.data = <<"b", "\n">>
    /\ files["n"].exists

\* C23: a grep call whose pattern matches no line of the file at its path,
\* a file that exists and can be read, returns a success result that carries
\* the no-matches message, when the subprocess could be started.
C23_GrepNoMatchIsSuccess ==
    [][(/\ IsToolStep
        /\ tool'.name = "grep"
        /\ tool'.args.pattern # None
        /\ tool'.args.path # None
        /\ tool'.res.kind # "raised"
        /\ fs_read_to_string(files, tool'.args.path[1]) # None
        /\ grep_file(tool'.args.path[1],
                     fs_read_to_string(files, tool'.args.path[1])[1],
                     Chars(tool'.args.pattern[1]), FALSE) = <<>>)
         => /\ tool'.res.kind = "ok"
            /\ tool'.res.msg = "No matches found for pattern"]_vars

\* C24: when the bash handler returns what the command produced, the text is
\* stdout alone when stderr is empty, stderr alone when stdout is empty, and
\* stdout, the separator and stderr when neither is; the result is a success
\* result exactly when the exit status is 0, and otherwise an error result
\* that carries the exit code (-1 when there is none) and that text.
C24_BashOutputCombination ==
    [][(/\ IsToolStep
        /\ tool'.name = "bash"
        /\ tool'.res.kind \in {"ok", "is_error"}
        /\ tool'.res.spawns # <<>>
        /\ tool'.res.msg # "Command timed out after")
         => LET env == tool'.env
                res == tool'.res
            IN  /\ env.stderr = <<>> => res.data = env.stdout
                /\ env.stdout = <<>> => res.data = env.stderr
                /\ (env.stdout # <<>> /\ env.stderr # <<>>)
                      => res.data = env.stdout \o <<"\nSTDERR:\n">> \o env.stderr
                /\ res.kind = "ok" <=> env.exit = "0"
                /\ env.exit = "1" => res.msg = "Command failed with exit code 1"
                /\ env.exit = "signal" => res.msg = "Command failed with exit code -1"]_vars

\* C24 witness: the second bash call ran a command that wrote to stderr only
\* and exited with status 1.
C24_Witness ==
    /\ nTool = 2
    /\ tool.name = "bash"
    /\ tool.env.stdout = <<>>
    /\ tool.env.stderr = <<"e">>
    /\ tool.env.exit = "1"
    /\ tool.res.kind = "is_error"
    /\ tool.res.msg = "Command failed with exit code 1"
    /\ tool.res.data = <<"e">>

C26_InvalidDefinitionFailsBeforeConnect ==
    /\ [][\A s \in ServerNames :
            (/\ ~is_stdio(ServerDef(s))
             /\ ~is_http(ServerDef(s))
             /\ pc = "ConnectingServers"
             /\ s \in todo
             /\ s \notin todo')
              => /\ lastInit' = [server |-> s, exchange |-> "none", res |-> "err"]
                 /\ conns' = conns
                 /\ orphaned' = orphaned
                 /\ manager' = manager
                 /\ BuiltinNames \subseteq DOMAIN manager'.tools
                 /\ pc' = "ConnectingServers"]_vars
    /\ [](pc = "DiscoveringTools" => attempted = config)
    /\ [](\A s \in ServerNames :
            (~is_stdio(ServerDef(s)) /\ ~is_http(ServerDef(s)))
              => /\ s \notin DOMAIN manager.clients
                 /\ s \notin DOMAIN mcp_manager.clients
                 /\ \A id \in DOMAIN conns : id[2] # s)

\* C26 witness: the configuration defines "s1" and the invalid "bad"; the
\* manager is built, holds a connection to "s1" and its tools, and none to
\* "bad".
C26_Witness ==
    /\ pc = "Ready"
    /\ config = {"s1", "bad"}
    /\ mcp_manager.some
    /\ DOMAIN mcp_manager.clients = {"s1"}
    /\ BuiltinNames \cup {"a", "b"} \subseteq DOMAIN mcp_manager.tools

\* C27: on the HTTP transport, a response with a non-2xx status makes
\* initialize (connect), tools/list and tools/call fail with the error that
\* carries the status, also when the body of the response holds a
\* well-formed result: no tool list is returned and no client is handed out
\* by a failed connect.
C27_HttpStatusIsError ==
    (/\ exch.op \in {"connect", "list_tools", "call_tool"}
     /\ exch.o = "status_err")
      => /\ exch.res = "err"
         /\ exch.err = <<"MCP server returned error", HttpResponse(exch.o).status>>
         /\ exch.tools = {}
         /\ exch.op = "connect" => client = NoClient

\* C27 witness: tools/call on an HTTP connection was answered with status
\* 500 and a body that holds a result, and call_tool returned an error.
C27_Witness ==
    /\ client.kind = "http"
    /\ exch.op = "call_tool"
    /\ exch.o = "status_err"
    /\ HttpResponse(exch.o).body = "ok"
    /\ ~is_success(HttpResponse(exch.o).status)
    /\ exch.res = "err"

\* The requests written on the client's connection, notifications left out.
RequestsOnWire == SelectSeq(client.wire, LAMBDA m : m.idKind # "none")

\* C28: on a stdio connection the k-th request carries the integer id k:
\* the first is initialize with id 1, every later tools/list or tools/call
\* has the id of the request before it plus one, whether that request
\* succeeded or failed, so no id is used twice; the counter is always the id
\* the next request will take; the initialized notification carries no id.
C28_StdioIdsCountUp ==
    client.kind = "stdio"
      => /\ \A k \in 1..Len(RequestsOnWire) :
              /\ RequestsOnWire[k].idKind = "int"
              /\ RequestsOnWire[k].id = k
              /\ (k = 1) <=> (RequestsOnWire[k].method = "initialize")
         /\ client.request_id = Len(RequestsOnWire) + 1
         /\ \A i \in 1..Len(client.wire) :
              client.wire[i].method = "notifications/initialized"
                <=> client.wire[i].idKind = "none"

\* C28 witness: the subprocess exited during the request with id 2, and the
\* request after it, which failed as well, carried id 3.
C28_Witness ==
    /\ client.kind = "stdio"
    /\ client.proc = "exited"
    /\ exch.op = "call_tool"
    /\ exch.o = "write_err"
    /\ exch.res = "err"
    /\ Len(RequestsOnWire) = 3
    /\ RequestsOnWire[2].method = "tools/list"
    /\ RequestsOnWire[3].method = "tools/call"
    /\ RequestsOnWire[3].id = 3

\* C29: the result a stdio list_tools / call_tool returns comes from the
\* response line whose id is the id of the request it has just sent,
\* whatever lines the server writes.
C29_ResultIsFromOwnResponse ==
    (/\ client.kind = "stdio"
     /\ exch.op \in {"list_tools", "call_tool"}
     /\ exch.res = "ok")
      => exch.from = exch.rid

\* C30: on one stdio client at most one request is in flight: a request line
\* is written only when every request written on that client before has
\* returned (with its response line read or with a failure), initialize
\* included; and a client with a request in flight does not keep the other
\* client from writing one.
C30_OneRequestInFlightPerConnection ==
    /\ [](\A l \in Links : Len(link[l].pending) <= 1)
    /\ [][\A l \in Links :
            Len(link'[l].pending) > Len(link[l].pending)
              => /\ link[l].pending = <<>>
                 /\ ~link[l].blocked
                 /\ link'[l].conn = link[l].conn]_vars
    /\ [](\A l \in Links, m \in Links :
            (/\ l # m
             /\ link[l].pending # <<>>
             /\ CanStartRequest(link[m])
             /\ (link[m].conn = NoClient \/ nReq < MaxRequests))
              => ENABLED (/\ LinkWrite
                          /\ Len(link'[m].pending) > Len(link[m].pending)))

\* C30 witness: tools/call is in flight on one client and tools/list on the
\* other, at the same time.
C30_Witness ==
    /\ link["A"].pending = <<"tools/call">>
    /\ link["B"].pending = <<"tools/list">>
    /\ link["A"].conn.request_id = 2
    /\ link["B"].conn.request_id = 2

-----------------------------------------------------------------------------
\* C31: McpManager::new runs Loading-Config, register built-ins,
\* Connecting-Servers, Discovering-Tools, Ready in that order.  The phases
\* follow each other only in that order; at every connect attempt the
\* built-in tools are already in the catalog; at every tools/list of discovery
\* a connect has been attempted for every configured server; and the manager
\* is handed to its caller only with discovery attempted on every connected
\* server.
Discovered == {discOrder[i].server : i \in DOMAIN discOrder}

C31_ConstructionOrder ==
    [][/\ (pc' # pc /\ pc' # "Hung") =>
             \/ pc = "LoadingConfig" /\ pc' \in {"RegisterBuiltins", "Ready"}
             \/ pc = "RegisterBuiltins" /\ pc' = "ConnectingServers"
             \/ pc = "ConnectingServers" /\ pc' = "DiscoveringTools"
             \/ pc = "DiscoveringTools" /\ pc' = "Ready"
             \/ pc \in {"Ready", "ShuttingDown"}
       /\ attempted' # attempted /\ attempted' # {} =>
             /\ pc = "ConnectingServers"
             /\ \A n \in BuiltinNames :
                  n \in DOMAIN manager.tools /\ manager.tools[n] = "builtin"
             /\ discOrder = <<>>
       /\ discOrder' # discOrder /\ discOrder' # <<>> =>
             /\ pc = "DiscoveringTools"
             /\ attempted = config
       /\ (pc = "DiscoveringTools" /\ pc' = "Ready") =>
             /\ attempted = config
             /\ Discovered = DOMAIN manager.clients
             /\ DOMAIN manager.clients = connOk
             /\ mcp_manager'.some =>
                  /\ mcp_manager'.clients = manager.clients
                  /\ mcp_manager'.tools = manager.tools
       /\ (mcp_manager' # mcp_manager /\ mcp_manager'.some) =>
             pc = "DiscoveringTools" /\ pc' = "Ready"]_vars

\* A manager built from two servers, one connected and listed, one whose
\* connect failed, has been handed to the caller.
C31_Witness ==
    /\ pc = "Ready"
    /\ mcp_manager.some
    /\ Cardinality(config) = 2
    /\ Cardinality(connOk) = 1
    /\ Len(discOrder) = 1
    /\ discOrder[1].ok

-----------------------------------------------------------------------------
\* C32: the two transports behave alike towards their caller.  Whenever
\* list_tools or call_tool has returned on a client of one transport, the
\* server having replied with a reply both transports can receive, the same
\* operation on a freshly connected client of the other transport for the
\* same server, given the same reply, puts a request with the same method
\* and the same params on the wire (tools/list without params, tools/call
\* with {name, arguments}) and returns the same tool list or result, or an
\* error when the first returned an error.
SharedReplies == StdioOutcomes \cap HttpOutcomes

\* The connected client of the other transport for the server of c.
Peer(c) ==
    IF c.kind = "stdio" THEN HttpClient_new(c.server, "ok").conn
    ELSE StdioClient_new(c.server, TRUE, "ok", "ok", FALSE).conn

C32_TransportsAgree ==
    (client # NoClient /\ exch.o \in SharedReplies) =>
        /\ exch.op = "list_tools" =>
             LET r == McpClient_list_tools(Peer(client), exch.o)
             IN  /\ exch.sent = Request("tools/list", <<>>)
                 /\ r.sent = exch.sent
                 /\ r.res = exch.res
                 /\ r.tools = exch.tools
        /\ exch.op = "call_tool" =>
             LET name == exch.sent.params[1][2]
                 arguments == exch.sent.params[2][2]
                 r == McpClient_call_tool(Peer(client), name, arguments, exch.o)
             IN  /\ exch.sent.method = "tools/call"
                 /\ Len(exch.sent.params) = 2
                 /\ exch.sent.params[1][1] = "name"
                 /\ name \in ServerTools(client.server)
                 /\ exch.sent.params[2][1] = "arguments"
                 /\ arguments \in ToolArguments
                 /\ r.sent = exch.sent
                 /\ r.res = exch.res

\* An HTTP client has returned the result of a call made with arguments
\* other than the empty object, after a tools/list that failed on a reply
\* without a result.
C32_Witness ==
    /\ client.kind = "http"
    /\ exch.op = "call_tool"
    /\ exch.o = "ok"
    /\ exch.res = "ok"
    /\ exch.sent.params[2][2] # EmptyObject
    /\ Len(client.wire) = 3
    /\ client.wire[2].method = "tools/list"

-----------------------------------------------------------------------------
\* C33: every grep subprocess the handler starts is the program grep run so
\* that, as grep reads its command line, the search expression is the
\* call's pattern and the only file operand is the call's path, with -i
\* exactly when ignore_case, -r exactly when recursive, and -n in every case.
GrepArgv(sp) == {sp.argv[i] : i \in DOMAIN sp.argv}

GrepOperands(sp) == SelectSeq(sp.argv, LAMBDA x : x \notin GrepOptions)

C33_GrepSearchesPathForPattern ==
    [][(/\ IsToolStep
        /\ tool'.name = "grep"
        /\ tool'.res.spawns # <<>>)
         => LET sp == tool'.res.spawns[1]
            IN  /\ sp.program = "grep"
                /\ GrepOperands(sp) = <<tool'.args.pattern[1], tool'.args.path[1]>>
                /\ ("-i" \in GrepArgv(sp)) <=> tool'.args.ignore_case
                /\ ("-r" \in GrepArgv(sp)) <=> tool'.args.recursive
                /\ "-n" \in GrepArgv(sp)]_vars

-----------------------------------------------------------------------------
\* C34: when the application has exited, shutdown has been invoked on every
\* connection the manager held, and no stdio subprocess of such a connection
\* is still running.
C34_ExitShutsDownEveryConnection ==
    (pc = "Exited" /\ mcp_manager.some) =>
        \A s \in DOMAIN mcp_manager.clients :
            /\ conns[mcp_manager.clients[s]].shut
            /\ conns[mcp_manager.clients[s]].proc # "running"

-----------------------------------------------------------------------------
\* C35: a configuration file that exists is not written by the program.  In
\* every step the program takes (a step of manager construction, a call, the
\* start of a reload, a step of shutdown, the exit) from a state in which
\* the file exists, the file is afterwards what it was before.  The steps
\* that change neither the phase nor the number of calls are the user's
\* edits of the file between two commands.
IsProgramStep == pc' # pc \/ nCalls' # nCalls

C35_ExistingConfigIsNotWritten ==
    [][(IsProgramStep /\ cfgFile.state # "absent") => cfgFile' = cfgFile]_vars

-----------------------------------------------------------------------------
\* C36: in the manager the application holds, every catalog entry is owned
\* by "builtin" or by a server under whose name the manager holds a
\* connection, and no call of the manager has failed with "server not
\* connected".
C36_OwnersAreConnected ==
    /\ mcp_manager.some =>
         \A n \in DOMAIN mcp_manager.tools :
            \/ mcp_manager.tools[n] = "builtin"
            \/ /\ mcp_manager.tools[n] \in DOMAIN mcp_manager.clients
               /\ mcp_manager.clients[mcp_manager.tools[n]] \in DOMAIN conns
    /\ last.err # "server_not_connected"

\* A call of a tool owned by a remote server has returned its result, in a
\* manager built from a configuration with a server that did not connect.
C36_Witness ==
    /\ pc = "Ready"
    /\ mcp_manager.some
    /\ last.res = "ok"
    /\ last.via = "s1"
    /\ mcp_manager.tools[last.name] = "s1"
    /\ config \ DOMAIN mcp_manager.clients # {}

-----------------------------------------------------------------------------
\* C37: owner "builtin" stands for the built-in registry alone.  In every
\* manager the application holds, each catalog entry owned by "builtin" names
\* a tool the registry has a handler for; and every call of a tool that a
\* connected server listed in discovery writes one tools/call request to the
\* connection of a server that listed it.
DiscoveredFrom(n) == {s \in Listed : n \in ServerTools(s)}

C37_BuiltinOwnerIsRegistryOnly ==
    /\ [](mcp_manager.some =>
            \A n \in DOMAIN mcp_manager.tools :
               mcp_manager.tools[n] = "builtin" => n \in BuiltinNames)
    /\ [][(IsCallStep /\ DiscoveredFrom(last'.name) # {})
           => \E s \in DiscoveredFrom(last'.name) :
                 /\ Len(Sent(mcp_manager.clients[s])) = 1
                 /\ Sent(mcp_manager.clients[s])[1].method = "tools/call"]_vars

-----------------------------------------------------------------------------
\* C38: the catalog is a function of the configuration and of the tool
\* lists the servers return.  When a construction hands over its manager,
\* each name listed by several servers is owned by the one that stands last
\* among them in the configuration file; and when the manager it replaces
\* was built with the same servers listing the same tools, the two catalogs
\* are equal.

\* The order in which the configuration file names the servers.
ConfigOrder == <<"s1", "s2", "builtin", "bad">>

PositionInConfig(s) == CHOOSE i \in DOMAIN ConfigOrder : ConfigOrder[i] = s

\* The servers whose tool lists went into catalog m: every server lists a
\* name that no other server and no built-in has.
ListedIn(m) == {s \in DOMAIN m.clients : ServerTools(s) \subseteq DOMAIN m.tools}

C38_CatalogIsDeterministic ==
    [][(pc = "DiscoveringTools" /\ pc' = "Ready" /\ mcp_manager'.some)
        => /\ \A n \in DOMAIN mcp_manager'.tools :
                DiscoveredFrom(n) # {} =>
                   /\ mcp_manager'.tools[n] \in DiscoveredFrom(n)
                   /\ \A s \in DiscoveredFrom(n) :
                        PositionInConfig(s) <= PositionInConfig(mcp_manager'.tools[n])
           /\ (mcp_manager.some /\ ListedIn(mcp_manager) = Listed)
                => mcp_manager'.tools = mcp_manager.tools]_vars

-----------------------------------------------------------------------------
====
